---- MODULE Spec2Model ----
(***************************************************************************)
(* A model of the simple file server: the request parser                   *)
(* (src/http/request.rs), the response builder (src/http/response.rs) and  *)
(* the connection driver, the handlers and is_safe_path (src/main.rs).     *)
(*                                                                         *)
(* A Rust String or Vec<u8> is a sequence of one-character strings.        *)
(* Symbols stand for what a TLA+ string literal cannot hold: NUL is the    *)
(* byte 0x00, "xHH" the byte 0xHH >= 0x80 that is not part of a character  *)
(* (INVALID_BYTE is 0xFF), and "U+H..H" the character of that code point   *)
(* (REPLACEMENT_CHARACTER is U+FFFD, three bytes in UTF-8).                *)
(***************************************************************************)
EXTENDS Integers, Sequences, FiniteSets, TLC

(***************************************************************************)
(* Bounds of the model                                                     *)
(***************************************************************************)
\* connections the listener delivers in one behaviour
MaxConns == 1
\* add_header / set_body calls made on one HttpResponse
MaxCalls == 3

(***************************************************************************)
(* Characters and strings                                                  *)
(***************************************************************************)
NUL == "NUL"
INVALID_BYTE == "xFF"
REPLACEMENT_CHARACTER == "U+FFFD"
CRLF == <<"\r","\n">>
CRLFCRLF == <<"\r","\n","\r","\n">>

None == [some |-> FALSE]
Some(v) == [some |-> TRUE, val |-> v]

\* the least element of a non-empty set of integers
Least(S) == CHOOSE x \in S : \A y \in S : x <= y

\* the elements of a finite set of integers in increasing order
RECURSIVE Ascending(_)
Ascending(S) == IF S = {} THEN <<>> ELSE <<Least(S)>> \o Ascending(S \ {Least(S)})

\* s[from..] in Rust's slice notation, with 1-based from
From(s, from) == SubSeq(s, from, Len(s))

UpperHex == <<"0","1","2","3","4","5","6","7","8","9","A","B","C","D","E","F">>

\* the symbol of the byte v >= 0x80, and the symbols of all such bytes
ByteSym(v) == "x" \o UpperHex[(v \div 16) + 1] \o UpperHex[(v % 16) + 1]
HighBytes == {ByteSym(v) : v \in 128..255}

\* whether an element of a byte string is a byte >= 0x80 (a symbol of three letters
\* other than NUL and the control characters)
is_high_byte(c) == c # NUL /\ Len(c) = 3 /\ c \in HighBytes

\* the value of an element of a byte string where a continuation byte is looked for:
\* that of a byte >= 0x80, and 0 for a character (whose first byte is no continuation)
ByteVal(c) == IF is_high_byte(c) THEN CHOOSE v \in 128..255 : ByteSym(v) = c ELSE 0

\* the symbol of the character with code point v >= 0x80
RECURSIVE to_hex(_)
to_hex(v) == IF v < 16 THEN UpperHex[v + 1] ELSE to_hex(v \div 16) \o UpperHex[(v % 16) + 1]
CharOf(v) == "U+" \o to_hex(v)

\* the characters of the bytes 0x01..0x7F
Ascii == <<"x01","x02","x03","x04","x05","x06","x07","x08","\t","\n","x0B","x0C","\r","x0E","x0F","x10","x11","x12","x13","x14","x15","x16","x17","x18","x19","x1A","x1B","x1C","x1D","x1E","x1F"," ","!","\"","#","$","%","&","'","(",")","*","+",",","-",".","/","0","1","2","3","4","5","6","7","8","9",":",";","<","=",">","?","@","A","B","C","D","E","F","G","H","I","J","K","L","M","N","O","P","Q","R","S","T","U","V","W","X","Y","Z","[","\\","]","^","_","x60","a","b","c","d","e","f","g","h","i","j","k","l","m","n","o","p","q","r","s","t","u","v","w","x","y","z","{","|","}","~","x7F">>

\* char::from_u32: the character with code point v
char_from_u32(v) == IF v = 0 THEN NUL ELSE IF v < 128 THEN Ascii[v] ELSE CharOf(v)

\* the characters of a sequence of code points
chars_from(points) == [k \in 1..Len(points) |-> char_from_u32(points[k])]

\* the property White_Space of Unicode: U+0009..U+000D, U+0020, U+0085, U+00A0,
\* U+1680, U+2000..U+200A, U+2028, U+2029, U+202F, U+205F, U+3000
White_Space == {
    "\t", "\n", "x0B", "x0C", "\r", " ", "U+85", "U+A0", "U+1680",
    "U+2000", "U+2001", "U+2002", "U+2003", "U+2004", "U+2005", "U+2006", "U+2007", "U+2008", "U+2009", "U+200A",
    "U+2028", "U+2029", "U+202F", "U+205F", "U+3000" }

\* char::is_whitespace
is_whitespace(c) == c \in White_Space

(***************************************************************************)
(* Unicode data of the standard library (core::unicode, Unicode 17.0), as  *)
(* text: every code point is written with five hexadecimal digits.         *)
(***************************************************************************)
\* conversions::to_upper: an entry of twenty digits for every character above U+007F
\* with an upper case, the character and the up to three characters it is written
\* with in upper case (00000 for none), in ascending order
UPPERCASE_TABLE ==
    "000B50039C0000000000000DF000530005300000000E0000C00000000000000E1000C10000000000000E2000C20000000000"
    \o "000E3000C30000000000000E4000C40000000000000E5000C50000000000000E6000C60000000000000E7000C70000000000"
    \o "000E8000C80000000000000E9000C90000000000000EA000CA0000000000000EB000CB0000000000000EC000CC0000000000"
    \o "000ED000CD0000000000000EE000CE0000000000000EF000CF0000000000000F0000D00000000000000F1000D10000000000"
    \o "000F2000D20000000000000F3000D30000000000000F4000D40000000000000F5000D50000000000000F6000D60000000000"
    \o "000F8000D80000000000000F9000D90000000000000FA000DA0000000000000FB000DB0000000000000FC000DC0000000000"
    \o "000FD000DD0000000000000FE000DE0000000000000FF0017800000000000010100100000000000000103001020000000000"
    \o "0010500104000000000000107001060000000000001090010800000000000010B0010A00000000000010D0010C0000000000"
    \o "0010F0010E000000000000111001100000000000001130011200000000000011500114000000000000117001160000000000"
    \o "001190011800000000000011B0011A00000000000011D0011C00000000000011F0011E000000000000121001200000000000"
    \o "001230012200000000000012500124000000000000127001260000000000001290012800000000000012B0012A0000000000"
    \o "0012D0012C00000000000012F0012E0000000000001310004900000000000013300132000000000000135001340000000000"
    \o "001370013600000000000013A0013900000000000013C0013B00000000000013E0013D0000000000001400013F0000000000"
    \o "0014200141000000000000144001430000000000001460014500000000000014800147000000000000149002BC0004E00000"
    \o "0014B0014A00000000000014D0014C00000000000014F0014E00000000000015100150000000000000153001520000000000"
    \o "0015500154000000000000157001560000000000001590015800000000000015B0015A00000000000015D0015C0000000000"
    \o "0015F0015E000000000000161001600000000000001630016200000000000016500164000000000000167001660000000000"
    \o "001690016800000000000016B0016A00000000000016D0016C00000000000016F0016E000000000000171001700000000000"
    \o "0017300172000000000000175001740000000000001770017600000000000017A0017900000000000017C0017B0000000000"
    \o "0017E0017D00000000000017F000530000000000001800024300000000000018300182000000000000185001840000000000"
    \o "001880018700000000000018C0018B00000000000019200191000000000000195001F6000000000000199001980000000000"
    \o "0019A0023D00000000000019B0A7DC00000000000019E002200000000000001A1001A00000000000001A3001A20000000000"
    \o "001A5001A40000000000001A8001A70000000000001AD001AC0000000000001B0001AF0000000000001B4001B30000000000"
    \o "001B6001B50000000000001B9001B80000000000001BD001BC0000000000001BF001F70000000000001C5001C40000000000"
    \o "001C6001C40000000000001C8001C70000000000001C9001C70000000000001CB001CA0000000000001CC001CA0000000000"
    \o "001CE001CD0000000000001D0001CF0000000000001D2001D10000000000001D4001D30000000000001D6001D50000000000"
    \o "001D8001D70000000000001DA001D90000000000001DC001DB0000000000001DD0018E0000000000001DF001DE0000000000"
    \o "001E1001E00000000000001E3001E20000000000001E5001E40000000000001E7001E60000000000001E9001E80000000000"
    \o "001EB001EA0000000000001ED001EC0000000000001EF001EE0000000000001F00004A0030C00000001F2001F10000000000"
    \o "001F3001F10000000000001F5001F40000000000001F9001F80000000000001FB001FA0000000000001FD001FC0000000000"
    \o "001FF001FE000000000000201002000000000000002030020200000000000020500204000000000000207002060000000000"
    \o "002090020800000000000020B0020A00000000000020D0020C00000000000020F0020E000000000000211002100000000000"
    \o "002130021200000000000021500214000000000000217002160000000000002190021800000000000021B0021A0000000000"
    \o "0021D0021C00000000000021F0021E0000000000002230022200000000000022500224000000000000227002260000000000"
    \o "002290022800000000000022B0022A00000000000022D0022C00000000000022F0022E000000000000231002300000000000"
    \o "002330023200000000000023C0023B00000000000023F02C7E00000000000024002C7F000000000000242002410000000000"
    \o "00247002460000000000002490024800000000000024B0024A00000000000024D0024C00000000000024F0024E0000000000"
    \o "0025002C6F00000000000025102C6D00000000000025202C7000000000000025300181000000000000254001860000000000"
    \o "00256001890000000000002570018A0000000000002590018F00000000000025B0019000000000000025C0A7AB0000000000"
    \o "00260001930000000000002610A7AC000000000000263001940000000000002640A7CB0000000000002650A78D0000000000"
    \o "002660A7AA000000000000268001970000000000002690019600000000000026A0A7AE00000000000026B02C620000000000"
    \o "0026C0A7AD00000000000026F0019C00000000000027102C6E0000000000002720019D0000000000002750019F0000000000"
    \o "0027D02C64000000000000280001A60000000000002820A7C5000000000000283001A90000000000002870A7B10000000000"
    \o "00288001AE0000000000002890024400000000000028A001B100000000000028B001B200000000000028C002450000000000"
    \o "00292001B700000000000029D0A7B200000000000029E0A7B000000000000034500399000000000000371003700000000000"
    \o "00373003720000000000003770037600000000000037B003FD00000000000037C003FE00000000000037D003FF0000000000"
    \o "00390003990030800301003AC003860000000000003AD003880000000000003AE003890000000000003AF0038A0000000000"
    \o "003B0003A50030800301003B1003910000000000003B2003920000000000003B3003930000000000003B4003940000000000"
    \o "003B5003950000000000003B6003960000000000003B7003970000000000003B8003980000000000003B9003990000000000"
    \o "003BA0039A0000000000003BB0039B0000000000003BC0039C0000000000003BD0039D0000000000003BE0039E0000000000"
    \o "003BF0039F0000000000003C0003A00000000000003C1003A10000000000003C2003A30000000000003C3003A30000000000"
    \o "003C4003A40000000000003C5003A50000000000003C6003A60000000000003C7003A70000000000003C8003A80000000000"
    \o "003C9003A90000000000003CA003AA0000000000003CB003AB0000000000003CC0038C0000000000003CD0038E0000000000"
    \o "003CE0038F0000000000003D0003920000000000003D1003980000000000003D5003A60000000000003D6003A00000000000"
    \o "003D7003CF0000000000003D9003D80000000000003DB003DA0000000000003DD003DC0000000000003DF003DE0000000000"
    \o "003E1003E00000000000003E3003E20000000000003E5003E40000000000003E7003E60000000000003E9003E80000000000"
    \o "003EB003EA0000000000003ED003EC0000000000003EF003EE0000000000003F00039A0000000000003F1003A10000000000"
    \o "003F2003F90000000000003F30037F0000000000003F5003950000000000003F8003F70000000000003FB003FA0000000000"
    \o "0043000410000000000000431004110000000000004320041200000000000043300413000000000000434004140000000000"
    \o "0043500415000000000000436004160000000000004370041700000000000043800418000000000000439004190000000000"
    \o "0043A0041A00000000000043B0041B00000000000043C0041C00000000000043D0041D00000000000043E0041E0000000000"
    \o "0043F0041F000000000000440004200000000000004410042100000000000044200422000000000000443004230000000000"
    \o "0044400424000000000000445004250000000000004460042600000000000044700427000000000000448004280000000000"
    \o "004490042900000000000044A0042A00000000000044B0042B00000000000044C0042C00000000000044D0042D0000000000"
    \o "0044E0042E00000000000044F0042F0000000000004500040000000000000045100401000000000000452004020000000000"
    \o "0045300403000000000000454004040000000000004550040500000000000045600406000000000000457004070000000000"
    \o "00458004080000000000004590040900000000000045A0040A00000000000045B0040B00000000000045C0040C0000000000"
    \o "0045D0040D00000000000045E0040E00000000000045F0040F00000000000046100460000000000000463004620000000000"
    \o "0046500464000000000000467004660000000000004690046800000000000046B0046A00000000000046D0046C0000000000"
    \o "0046F0046E000000000000471004700000000000004730047200000000000047500474000000000000477004760000000000"
    \o "004790047800000000000047B0047A00000000000047D0047C00000000000047F0047E000000000000481004800000000000"
    \o "0048B0048A00000000000048D0048C00000000000048F0048E00000000000049100490000000000000493004920000000000"
    \o "0049500494000000000000497004960000000000004990049800000000000049B0049A00000000000049D0049C0000000000"
    \o "0049F0049E0000000000004A1004A00000000000004A3004A20000000000004A5004A40000000000004A7004A60000000000"
    \o "004A9004A80000000000004AB004AA0000000000004AD004AC0000000000004AF004AE0000000000004B1004B00000000000"
    \o "004B3004B20000000000004B5004B40000000000004B7004B60000000000004B9004B80000000000004BB004BA0000000000"
    \o "004BD004BC0000000000004BF004BE0000000000004C2004C10000000000004C4004C30000000000004C6004C50000000000"
    \o "004C8004C70000000000004CA004C90000000000004CC004CB0000000000004CE004CD0000000000004CF004C00000000000"
    \o "004D1004D00000000000004D3004D20000000000004D5004D40000000000004D7004D60000000000004D9004D80000000000"
    \o "004DB004DA0000000000004DD004DC0000000000004DF004DE0000000000004E1004E00000000000004E3004E20000000000"
    \o "004E5004E40000000000004E7004E60000000000004E9004E80000000000004EB004EA0000000000004ED004EC0000000000"
    \o "004EF004EE0000000000004F1004F00000000000004F3004F20000000000004F5004F40000000000004F7004F60000000000"
    \o "004F9004F80000000000004FB004FA0000000000004FD004FC0000000000004FF004FE000000000000501005000000000000"
    \o "005030050200000000000050500504000000000000507005060000000000005090050800000000000050B0050A0000000000"
    \o "0050D0050C00000000000050F0050E0000000000005110051000000000000051300512000000000000515005140000000000"
    \o "00517005160000000000005190051800000000000051B0051A00000000000051D0051C00000000000051F0051E0000000000"
    \o "0052100520000000000000523005220000000000005250052400000000000052700526000000000000529005280000000000"
    \o "0052B0052A00000000000052D0052C00000000000052F0052E00000000000056100531000000000000562005320000000000"
    \o "0056300533000000000000564005340000000000005650053500000000000056600536000000000000567005370000000000"
    \o "00568005380000000000005690053900000000000056A0053A00000000000056B0053B00000000000056C0053C0000000000"
    \o "0056D0053D00000000000056E0053E00000000000056F0053F00000000000057000540000000000000571005410000000000"
    \o "0057200542000000000000573005430000000000005740054400000000000057500545000000000000576005460000000000"
    \o "0057700547000000000000578005480000000000005790054900000000000057A0054A00000000000057B0054B0000000000"
    \o "0057C0054C00000000000057D0054D00000000000057E0054E00000000000057F0054F000000000000580005500000000000"
    \o "0058100551000000000000582005520000000000005830055300000000000058400554000000000000585005550000000000"
    \o "0058600556000000000000587005350055200000010D001C900000000000010D101C910000000000010D201C920000000000"
    \o "010D301C930000000000010D401C940000000000010D501C950000000000010D601C960000000000010D701C970000000000"
    \o "010D801C980000000000010D901C990000000000010DA01C9A0000000000010DB01C9B0000000000010DC01C9C0000000000"
    \o "010DD01C9D0000000000010DE01C9E0000000000010DF01C9F0000000000010E001CA00000000000010E101CA10000000000"
    \o "010E201CA20000000000010E301CA30000000000010E401CA40000000000010E501CA50000000000010E601CA60000000000"
    \o "010E701CA70000000000010E801CA80000000000010E901CA90000000000010EA01CAA0000000000010EB01CAB0000000000"
    \o "010EC01CAC0000000000010ED01CAD0000000000010EE01CAE0000000000010EF01CAF0000000000010F001CB00000000000"
    \o "010F101CB10000000000010F201CB20000000000010F301CB30000000000010F401CB40000000000010F501CB50000000000"
    \o "010F601CB60000000000010F701CB70000000000010F801CB80000000000010F901CB90000000000010FA01CBA0000000000"
    \o "010FD01CBD0000000000010FE01CBE0000000000010FF01CBF0000000000013F8013F00000000000013F9013F10000000000"
    \o "013FA013F20000000000013FB013F30000000000013FC013F40000000000013FD013F5000000000001C80004120000000000"
    \o "01C8100414000000000001C820041E000000000001C8300421000000000001C8400422000000000001C85004220000000000"
    \o "01C860042A000000000001C8700462000000000001C880A64A000000000001C8A01C89000000000001D790A77D0000000000"
    \o "01D7D02C63000000000001D8E0A7C6000000000001E0101E00000000000001E0301E02000000000001E0501E040000000000"
    \o "01E0701E06000000000001E0901E08000000000001E0B01E0A000000000001E0D01E0C000000000001E0F01E0E0000000000"
    \o "01E1101E10000000000001E1301E12000000000001E1501E14000000000001E1701E16000000000001E1901E180000000000"
    \o "01E1B01E1A000000000001E1D01E1C000000000001E1F01E1E000000000001E2101E20000000000001E2301E220000000000"
    \o "01E2501E24000000000001E2701E26000000000001E2901E28000000000001E2B01E2A000000000001E2D01E2C0000000000"
    \o "01E2F01E2E000000000001E3101E30000000000001E3301E32000000000001E3501E34000000000001E3701E360000000000"
    \o "01E3901E38000000000001E3B01E3A000000000001E3D01E3C000000000001E3F01E3E000000000001E4101E400000000000"
    \o "01E4301E42000000000001E4501E44000000000001E4701E46000000000001E4901E48000000000001E4B01E4A0000000000"
    \o "01E4D01E4C000000000001E4F01E4E000000000001E5101E50000000000001E5301E52000000000001E5501E540000000000"
    \o "01E5701E56000000000001E5901E58000000000001E5B01E5A000000000001E5D01E5C000000000001E5F01E5E0000000000"
    \o "01E6101E60000000000001E6301E62000000000001E6501E64000000000001E6701E66000000000001E6901E680000000000"
    \o "01E6B01E6A000000000001E6D01E6C000000000001E6F01E6E000000000001E7101E70000000000001E7301E720000000000"
    \o "01E7501E74000000000001E7701E76000000000001E7901E78000000000001E7B01E7A000000000001E7D01E7C0000000000"
    \o "01E7F01E7E000000000001E8101E80000000000001E8301E82000000000001E8501E84000000000001E8701E860000000000"
    \o "01E8901E88000000000001E8B01E8A000000000001E8D01E8C000000000001E8F01E8E000000000001E9101E900000000000"
    \o "01E9301E92000000000001E9501E94000000000001E9600048003310000001E9700054003080000001E98000570030A00000"
    \o "01E99000590030A0000001E9A00041002BE0000001E9B01E60000000000001EA101EA0000000000001EA301EA20000000000"
    \o "01EA501EA4000000000001EA701EA6000000000001EA901EA8000000000001EAB01EAA000000000001EAD01EAC0000000000"
    \o "01EAF01EAE000000000001EB101EB0000000000001EB301EB2000000000001EB501EB4000000000001EB701EB60000000000"
    \o "01EB901EB8000000000001EBB01EBA000000000001EBD01EBC000000000001EBF01EBE000000000001EC101EC00000000000"
    \o "01EC301EC2000000000001EC501EC4000000000001EC701EC6000000000001EC901EC8000000000001ECB01ECA0000000000"
    \o "01ECD01ECC000000000001ECF01ECE000000000001ED101ED0000000000001ED301ED2000000000001ED501ED40000000000"
    \o "01ED701ED6000000000001ED901ED8000000000001EDB01EDA000000000001EDD01EDC000000000001EDF01EDE0000000000"
    \o "01EE101EE0000000000001EE301EE2000000000001EE501EE4000000000001EE701EE6000000000001EE901EE80000000000"
    \o "01EEB01EEA000000000001EED01EEC000000000001EEF01EEE000000000001EF101EF0000000000001EF301EF20000000000"
    \o "01EF501EF4000000000001EF701EF6000000000001EF901EF8000000000001EFB01EFA000000000001EFD01EFC0000000000"
    \o "01EFF01EFE000000000001F0001F08000000000001F0101F09000000000001F0201F0A000000000001F0301F0B0000000000"
    \o "01F0401F0C000000000001F0501F0D000000000001F0601F0E000000000001F0701F0F000000000001F1001F180000000000"
    \o "01F1101F19000000000001F1201F1A000000000001F1301F1B000000000001F1401F1C000000000001F1501F1D0000000000"
    \o "01F2001F28000000000001F2101F29000000000001F2201F2A000000000001F2301F2B000000000001F2401F2C0000000000"
    \o "01F2501F2D000000000001F2601F2E000000000001F2701F2F000000000001F3001F38000000000001F3101F390000000000"
    \o "01F3201F3A000000000001F3301F3B000000000001F3401F3C000000000001F3501F3D000000000001F3601F3E0000000000"
    \o "01F3701F3F000000000001F4001F48000000000001F4101F49000000000001F4201F4A000000000001F4301F4B0000000000"
    \o "01F4401F4C000000000001F4501F4D000000000001F50003A5003130000001F5101F59000000000001F52003A50031300300"
    \o "01F5301F5B000000000001F54003A5003130030101F5501F5D000000000001F56003A5003130034201F5701F5F0000000000"
    \o "01F6001F68000000000001F6101F69000000000001F6201F6A000000000001F6301F6B000000000001F6401F6C0000000000"
    \o "01F6501F6D000000000001F6601F6E000000000001F6701F6F000000000001F7001FBA000000000001F7101FBB0000000000"
    \o "01F7201FC8000000000001F7301FC9000000000001F7401FCA000000000001F7501FCB000000000001F7601FDA0000000000"
    \o "01F7701FDB000000000001F7801FF8000000000001F7901FF9000000000001F7A01FEA000000000001F7B01FEB0000000000"
    \o "01F7C01FFA000000000001F7D01FFB000000000001F8001F08003990000001F8101F09003990000001F8201F0A0039900000"
    \o "01F8301F0B003990000001F8401F0C003990000001F8501F0D003990000001F8601F0E003990000001F8701F0F0039900000"
    \o "01F8801F08003990000001F8901F09003990000001F8A01F0A003990000001F8B01F0B003990000001F8C01F0C0039900000"
    \o "01F8D01F0D003990000001F8E01F0E003990000001F8F01F0F003990000001F9001F28003990000001F9101F290039900000"
    \o "01F9201F2A003990000001F9301F2B003990000001F9401F2C003990000001F9501F2D003990000001F9601F2E0039900000"
    \o "01F9701F2F003990000001F9801F28003990000001F9901F29003990000001F9A01F2A003990000001F9B01F2B0039900000"
    \o "01F9C01F2C003990000001F9D01F2D003990000001F9E01F2E003990000001F9F01F2F003990000001FA001F680039900000"
    \o "01FA101F69003990000001FA201F6A003990000001FA301F6B003990000001FA401F6C003990000001FA501F6D0039900000"
    \o "01FA601F6E003990000001FA701F6F003990000001FA801F68003990000001FA901F69003990000001FAA01F6A0039900000"
    \o "01FAB01F6B003990000001FAC01F6C003990000001FAD01F6D003990000001FAE01F6E003990000001FAF01F6F0039900000"
    \o "01FB001FB8000000000001FB101FB9000000000001FB201FBA003990000001FB300391003990000001FB4003860039900000"
    \o "01FB600391003420000001FB700391003420039901FBC00391003990000001FBE00399000000000001FC201FCA0039900000"
    \o "01FC300397003990000001FC400389003990000001FC600397003420000001FC700397003420039901FCC003970039900000"
    \o "01FD001FD8000000000001FD101FD9000000000001FD200399003080030001FD300399003080030101FD6003990034200000"
    \o "01FD700399003080034201FE001FE8000000000001FE101FE9000000000001FE2003A5003080030001FE3003A50030800301"
    \o "01FE4003A1003130000001FE501FEC000000000001FE6003A5003420000001FE7003A5003080034201FF201FFA0039900000"
    \o "01FF3003A9003990000001FF40038F003990000001FF6003A9003420000001FF7003A9003420039901FFC003A90039900000"
    \o "0214E02132000000000002170021600000000000021710216100000000000217202162000000000002173021630000000000"
    \o "0217402164000000000002175021650000000000021760216600000000000217702167000000000002178021680000000000"
    \o "021790216900000000000217A0216A00000000000217B0216B00000000000217C0216C00000000000217D0216D0000000000"
    \o "0217E0216E00000000000217F0216F000000000002184021830000000000024D0024B60000000000024D1024B70000000000"
    \o "024D2024B80000000000024D3024B90000000000024D4024BA0000000000024D5024BB0000000000024D6024BC0000000000"
    \o "024D7024BD0000000000024D8024BE0000000000024D9024BF0000000000024DA024C00000000000024DB024C10000000000"
    \o "024DC024C20000000000024DD024C30000000000024DE024C40000000000024DF024C50000000000024E0024C60000000000"
    \o "024E1024C70000000000024E2024C80000000000024E3024C90000000000024E4024CA0000000000024E5024CB0000000000"
    \o "024E6024CC0000000000024E7024CD0000000000024E8024CE0000000000024E9024CF000000000002C3002C000000000000"
    \o "02C3102C01000000000002C3202C02000000000002C3302C03000000000002C3402C04000000000002C3502C050000000000"
    \o "02C3602C06000000000002C3702C07000000000002C3802C08000000000002C3902C09000000000002C3A02C0A0000000000"
    \o "02C3B02C0B000000000002C3C02C0C000000000002C3D02C0D000000000002C3E02C0E000000000002C3F02C0F0000000000"
    \o "02C4002C10000000000002C4102C11000000000002C4202C12000000000002C4302C13000000000002C4402C140000000000"
    \o "02C4502C15000000000002C4602C16000000000002C4702C17000000000002C4802C18000000000002C4902C190000000000"
    \o "02C4A02C1A000000000002C4B02C1B000000000002C4C02C1C000000000002C4D02C1D000000000002C4E02C1E0000000000"
    \o "02C4F02C1F000000000002C5002C20000000000002C5102C21000000000002C5202C22000000000002C5302C230000000000"
    \o "02C5402C24000000000002C5502C25000000000002C5602C26000000000002C5702C27000000000002C5802C280000000000"
    \o "02C5902C29000000000002C5A02C2A000000000002C5B02C2B000000000002C5C02C2C000000000002C5D02C2D0000000000"
    \o "02C5E02C2E000000000002C5F02C2F000000000002C6102C60000000000002C650023A000000000002C660023E0000000000"
    \o "02C6802C67000000000002C6A02C69000000000002C6C02C6B000000000002C7302C72000000000002C7602C750000000000"
    \o "02C8102C80000000000002C8302C82000000000002C8502C84000000000002C8702C86000000000002C8902C880000000000"
    \o "02C8B02C8A000000000002C8D02C8C000000000002C8F02C8E000000000002C9102C90000000000002C9302C920000000000"
    \o "02C9502C94000000000002C9702C96000000000002C9902C98000000000002C9B02C9A000000000002C9D02C9C0000000000"
    \o "02C9F02C9E000000000002CA102CA0000000000002CA302CA2000000000002CA502CA4000000000002CA702CA60000000000"
    \o "02CA902CA8000000000002CAB02CAA000000000002CAD02CAC000000000002CAF02CAE000000000002CB102CB00000000000"
    \o "02CB302CB2000000000002CB502CB4000000000002CB702CB6000000000002CB902CB8000000000002CBB02CBA0000000000"
    \o "02CBD02CBC000000000002CBF02CBE000000000002CC102CC0000000000002CC302CC2000000000002CC502CC40000000000"
    \o "02CC702CC6000000000002CC902CC8000000000002CCB02CCA000000000002CCD02CCC000000000002CCF02CCE0000000000"
    \o "02CD102CD0000000000002CD302CD2000000000002CD502CD4000000000002CD702CD6000000000002CD902CD80000000000"
    \o "02CDB02CDA000000000002CDD02CDC000000000002CDF02CDE000000000002CE102CE0000000000002CE302CE20000000000"
    \o "02CEC02CEB000000000002CEE02CED000000000002CF302CF2000000000002D00010A0000000000002D01010A10000000000"
    \o "02D02010A2000000000002D03010A3000000000002D04010A4000000000002D05010A5000000000002D06010A60000000000"
    \o "02D07010A7000000000002D08010A8000000000002D09010A9000000000002D0A010AA000000000002D0B010AB0000000000"
    \o "02D0C010AC000000000002D0D010AD000000000002D0E010AE000000000002D0F010AF000000000002D10010B00000000000"
    \o "02D11010B1000000000002D12010B2000000000002D13010B3000000000002D14010B4000000000002D15010B50000000000"
    \o "02D16010B6000000000002D17010B7000000000002D18010B8000000000002D19010B9000000000002D1A010BA0000000000"
    \o "02D1B010BB000000000002D1C010BC000000000002D1D010BD000000000002D1E010BE000000000002D1F010BF0000000000"
    \o "02D20010C0000000000002D21010C1000000000002D22010C2000000000002D23010C3000000000002D24010C40000000000"
    \o "02D25010C5000000000002D27010C7000000000002D2D010CD00000000000A6410A64000000000000A6430A6420000000000"
    \o "0A6450A64400000000000A6470A64600000000000A6490A64800000000000A64B0A64A00000000000A64D0A64C0000000000"
    \o "0A64F0A64E00000000000A6510A65000000000000A6530A65200000000000A6550A65400000000000A6570A6560000000000"
    \o "0A6590A65800000000000A65B0A65A00000000000A65D0A65C00000000000A65F0A65E00000000000A6610A6600000000000"
    \o "0A6630A66200000000000A6650A66400000000000A6670A66600000000000A6690A66800000000000A66B0A66A0000000000"
    \o "0A66D0A66C00000000000A6810A68000000000000A6830A68200000000000A6850A68400000000000A6870A6860000000000"
    \o "0A6890A68800000000000A68B0A68A00000000000A68D0A68C00000000000A68F0A68E00000000000A6910A6900000000000"
    \o "0A6930A69200000000000A6950A69400000000000A6970A69600000000000A6990A69800000000000A69B0A69A0000000000"
    \o "0A7230A72200000000000A7250A72400000000000A7270A72600000000000A7290A72800000000000A72B0A72A0000000000"
    \o "0A72D0A72C00000000000A72F0A72E00000000000A7330A73200000000000A7350A73400000000000A7370A7360000000000"
    \o "0A7390A73800000000000A73B0A73A00000000000A73D0A73C00000000000A73F0A73E00000000000A7410A7400000000000"
    \o "0A7430A74200000000000A7450A74400000000000A7470A74600000000000A7490A74800000000000A74B0A74A0000000000"
    \o "0A74D0A74C00000000000A74F0A74E00000000000A7510A75000000000000A7530A75200000000000A7550A7540000000000"
    \o "0A7570A75600000000000A7590A75800000000000A75B0A75A00000000000A75D0A75C00000000000A75F0A75E0000000000"
    \o "0A7610A76000000000000A7630A76200000000000A7650A76400000000000A7670A76600000000000A7690A7680000000000"
    \o "0A76B0A76A00000000000A76D0A76C00000000000A76F0A76E00000000000A77A0A77900000000000A77C0A77B0000000000"
    \o "0A77F0A77E00000000000A7810A78000000000000A7830A78200000000000A7850A78400000000000A7870A7860000000000"
    \o "0A78C0A78B00000000000A7910A79000000000000A7930A79200000000000A7940A7C400000000000A7970A7960000000000"
    \o "0A7990A79800000000000A79B0A79A00000000000A79D0A79C00000000000A79F0A79E00000000000A7A10A7A00000000000"
    \o "0A7A30A7A200000000000A7A50A7A400000000000A7A70A7A600000000000A7A90A7A800000000000A7B50A7B40000000000"
    \o "0A7B70A7B600000000000A7B90A7B800000000000A7BB0A7BA00000000000A7BD0A7BC00000000000A7BF0A7BE0000000000"
    \o "0A7C10A7C000000000000A7C30A7C200000000000A7C80A7C700000000000A7CA0A7C900000000000A7CD0A7CC0000000000"
    \o "0A7CF0A7CE00000000000A7D10A7D000000000000A7D30A7D200000000000A7D50A7D400000000000A7D70A7D60000000000"
    \o "0A7D90A7D800000000000A7DB0A7DA00000000000A7F60A7F500000000000AB530A7B300000000000AB70013A00000000000"
    \o "0AB71013A100000000000AB72013A200000000000AB73013A300000000000AB74013A400000000000AB75013A50000000000"
    \o "0AB76013A600000000000AB77013A700000000000AB78013A800000000000AB79013A900000000000AB7A013AA0000000000"
    \o "0AB7B013AB00000000000AB7C013AC00000000000AB7D013AD00000000000AB7E013AE00000000000AB7F013AF0000000000"
    \o "0AB80013B000000000000AB81013B100000000000AB82013B200000000000AB83013B300000000000AB84013B40000000000"
    \o "0AB85013B500000000000AB86013B600000000000AB87013B700000000000AB88013B800000000000AB89013B90000000000"
    \o "0AB8A013BA00000000000AB8B013BB00000000000AB8C013BC00000000000AB8D013BD00000000000AB8E013BE0000000000"
    \o "0AB8F013BF00000000000AB90013C000000000000AB91013C100000000000AB92013C200000000000AB93013C30000000000"
    \o "0AB94013C400000000000AB95013C500000000000AB96013C600000000000AB97013C700000000000AB98013C80000000000"
    \o "0AB99013C900000000000AB9A013CA00000000000AB9B013CB00000000000AB9C013CC00000000000AB9D013CD0000000000"
    \o "0AB9E013CE00000000000AB9F013CF00000000000ABA0013D000000000000ABA1013D100000000000ABA2013D20000000000"
    \o "0ABA3013D300000000000ABA4013D400000000000ABA5013D500000000000ABA6013D600000000000ABA7013D70000000000"
    \o "0ABA8013D800000000000ABA9013D900000000000ABAA013DA00000000000ABAB013DB00000000000ABAC013DC0000000000"
    \o "0ABAD013DD00000000000ABAE013DE00000000000ABAF013DF00000000000ABB0013E000000000000ABB1013E10000000000"
    \o "0ABB2013E200000000000ABB3013E300000000000ABB4013E400000000000ABB5013E500000000000ABB6013E60000000000"
    \o "0ABB7013E700000000000ABB8013E800000000000ABB9013E900000000000ABBA013EA00000000000ABBB013EB0000000000"
    \o "0ABBC013EC00000000000ABBD013ED00000000000ABBE013EE00000000000ABBF013EF00000000000FB00000460004600000"
    \o "0FB010004600049000000FB02000460004C000000FB030004600046000490FB0400046000460004C0FB05000530005400000"
    \o "0FB060005300054000000FB130054400546000000FB140054400535000000FB15005440053B000000FB160054E0054600000"
    \o "0FB17005440053D000000FF410FF2100000000000FF420FF2200000000000FF430FF2300000000000FF440FF240000000000"
    \o "0FF450FF2500000000000FF460FF2600000000000FF470FF2700000000000FF480FF2800000000000FF490FF290000000000"
    \o "0FF4A0FF2A00000000000FF4B0FF2B00000000000FF4C0FF2C00000000000FF4D0FF2D00000000000FF4E0FF2E0000000000"
    \o "0FF4F0FF2F00000000000FF500FF3000000000000FF510FF3100000000000FF520FF3200000000000FF530FF330000000000"
    \o "0FF540FF3400000000000FF550FF3500000000000FF560FF3600000000000FF570FF3700000000000FF580FF380000000000"
    \o "0FF590FF3900000000000FF5A0FF3A000000000010428104000000000000104291040100000000001042A104020000000000"
    \o "1042B1040300000000001042C1040400000000001042D1040500000000001042E1040600000000001042F104070000000000"
    \o "1043010408000000000010431104090000000000104321040A0000000000104331040B0000000000104341040C0000000000"
    \o "104351040D0000000000104361040E0000000000104371040F00000000001043810410000000000010439104110000000000"
    \o "1043A1041200000000001043B1041300000000001043C1041400000000001043D1041500000000001043E104160000000000"
    \o "1043F1041700000000001044010418000000000010441104190000000000104421041A0000000000104431041B0000000000"
    \o "104441041C0000000000104451041D0000000000104461041E0000000000104471041F000000000010448104200000000000"
    \o "104491042100000000001044A1042200000000001044B1042300000000001044C1042400000000001044D104250000000000"
    \o "1044E1042600000000001044F104270000000000104D8104B00000000000104D9104B10000000000104DA104B20000000000"
    \o "104DB104B30000000000104DC104B40000000000104DD104B50000000000104DE104B60000000000104DF104B70000000000"
    \o "104E0104B80000000000104E1104B90000000000104E2104BA0000000000104E3104BB0000000000104E4104BC0000000000"
    \o "104E5104BD0000000000104E6104BE0000000000104E7104BF0000000000104E8104C00000000000104E9104C10000000000"
    \o "104EA104C20000000000104EB104C30000000000104EC104C40000000000104ED104C50000000000104EE104C60000000000"
    \o "104EF104C70000000000104F0104C80000000000104F1104C90000000000104F2104CA0000000000104F3104CB0000000000"
    \o "104F4104CC0000000000104F5104CD0000000000104F6104CE0000000000104F7104CF0000000000104F8104D00000000000"
    \o "104F9104D10000000000104FA104D20000000000104FB104D300000000001059710570000000000010598105710000000000"
    \o "105991057200000000001059A1057300000000001059B1057400000000001059C1057500000000001059D105760000000000"
    \o "1059E1057700000000001059F105780000000000105A0105790000000000105A11057A0000000000105A31057C0000000000"
    \o "105A41057D0000000000105A51057E0000000000105A61057F0000000000105A7105800000000000105A8105810000000000"
    \o "105A9105820000000000105AA105830000000000105AB105840000000000105AC105850000000000105AD105860000000000"
    \o "105AE105870000000000105AF105880000000000105B0105890000000000105B11058A0000000000105B31058C0000000000"
    \o "105B41058D0000000000105B51058E0000000000105B61058F0000000000105B7105900000000000105B8105910000000000"
    \o "105B9105920000000000105BB105940000000000105BC10595000000000010CC010C80000000000010CC110C810000000000"
    \o "10CC210C82000000000010CC310C83000000000010CC410C84000000000010CC510C85000000000010CC610C860000000000"
    \o "10CC710C87000000000010CC810C88000000000010CC910C89000000000010CCA10C8A000000000010CCB10C8B0000000000"
    \o "10CCC10C8C000000000010CCD10C8D000000000010CCE10C8E000000000010CCF10C8F000000000010CD010C900000000000"
    \o "10CD110C91000000000010CD210C92000000000010CD310C93000000000010CD410C94000000000010CD510C950000000000"
    \o "10CD610C96000000000010CD710C97000000000010CD810C98000000000010CD910C99000000000010CDA10C9A0000000000"
    \o "10CDB10C9B000000000010CDC10C9C000000000010CDD10C9D000000000010CDE10C9E000000000010CDF10C9F0000000000"
    \o "10CE010CA0000000000010CE110CA1000000000010CE210CA2000000000010CE310CA3000000000010CE410CA40000000000"
    \o "10CE510CA5000000000010CE610CA6000000000010CE710CA7000000000010CE810CA8000000000010CE910CA90000000000"
    \o "10CEA10CAA000000000010CEB10CAB000000000010CEC10CAC000000000010CED10CAD000000000010CEE10CAE0000000000"
    \o "10CEF10CAF000000000010CF010CB0000000000010CF110CB1000000000010CF210CB2000000000010D7010D500000000000"
    \o "10D7110D51000000000010D7210D52000000000010D7310D53000000000010D7410D54000000000010D7510D550000000000"
    \o "10D7610D56000000000010D7710D57000000000010D7810D58000000000010D7910D59000000000010D7A10D5A0000000000"
    \o "10D7B10D5B000000000010D7C10D5C000000000010D7D10D5D000000000010D7E10D5E000000000010D7F10D5F0000000000"
    \o "10D8010D60000000000010D8110D61000000000010D8210D62000000000010D8310D63000000000010D8410D640000000000"
    \o "10D8510D650000000000118C0118A00000000000118C1118A10000000000118C2118A20000000000118C3118A30000000000"
    \o "118C4118A40000000000118C5118A50000000000118C6118A60000000000118C7118A70000000000118C8118A80000000000"
    \o "118C9118A90000000000118CA118AA0000000000118CB118AB0000000000118CC118AC0000000000118CD118AD0000000000"
    \o "118CE118AE0000000000118CF118AF0000000000118D0118B00000000000118D1118B10000000000118D2118B20000000000"
    \o "118D3118B30000000000118D4118B40000000000118D5118B50000000000118D6118B60000000000118D7118B70000000000"
    \o "118D8118B80000000000118D9118B90000000000118DA118BA0000000000118DB118BB0000000000118DC118BC0000000000"
    \o "118DD118BD0000000000118DE118BE0000000000118DF118BF000000000016E6016E40000000000016E6116E410000000000"
    \o "16E6216E42000000000016E6316E43000000000016E6416E44000000000016E6516E45000000000016E6616E460000000000"
    \o "16E6716E47000000000016E6816E48000000000016E6916E49000000000016E6A16E4A000000000016E6B16E4B0000000000"
    \o "16E6C16E4C000000000016E6D16E4D000000000016E6E16E4E000000000016E6F16E4F000000000016E7016E500000000000"
    \o "16E7116E51000000000016E7216E52000000000016E7316E53000000000016E7416E54000000000016E7516E550000000000"
    \o "16E7616E56000000000016E7716E57000000000016E7816E58000000000016E7916E59000000000016E7A16E5A0000000000"
    \o "16E7B16E5B000000000016E7C16E5C000000000016E7D16E5D000000000016E7E16E5E000000000016E7F16E5F0000000000"
    \o "16EBB16EA0000000000016EBC16EA1000000000016EBD16EA2000000000016EBE16EA3000000000016EBF16EA40000000000"
    \o "16EC016EA5000000000016EC116EA6000000000016EC216EA7000000000016EC316EA8000000000016EC416EA90000000000"
    \o "16EC516EAA000000000016EC616EAB000000000016EC716EAC000000000016EC816EAD000000000016EC916EAE0000000000"
    \o "16ECA16EAF000000000016ECB16EB0000000000016ECC16EB1000000000016ECD16EB2000000000016ECE16EB30000000000"
    \o "16ECF16EB4000000000016ED016EB5000000000016ED116EB6000000000016ED216EB7000000000016ED316EB80000000000"
    \o "1E9221E90000000000001E9231E90100000000001E9241E90200000000001E9251E90300000000001E9261E9040000000000"
    \o "1E9271E90500000000001E9281E90600000000001E9291E90700000000001E92A1E90800000000001E92B1E9090000000000"
    \o "1E92C1E90A00000000001E92D1E90B00000000001E92E1E90C00000000001E92F1E90D00000000001E9301E90E0000000000"
    \o "1E9311E90F00000000001E9321E91000000000001E9331E91100000000001E9341E91200000000001E9351E9130000000000"
    \o "1E9361E91400000000001E9371E91500000000001E9381E91600000000001E9391E91700000000001E93A1E9180000000000"
    \o "1E93B1E91900000000001E93C1E91A00000000001E93D1E91B00000000001E93E1E91C00000000001E93F1E91D0000000000"
    \o "1E9401E91E00000000001E9411E91F00000000001E9421E92000000000001E9431E9210000000000"

\* conversions::to_lower: likewise, the character and the characters it is written
\* with in lower case
LOWERCASE_TABLE ==
    "000C0000E00000000000000C1000E10000000000000C2000E20000000000000C3000E30000000000000C4000E40000000000"
    \o "000C5000E50000000000000C6000E60000000000000C7000E70000000000000C8000E80000000000000C9000E90000000000"
    \o "000CA000EA0000000000000CB000EB0000000000000CC000EC0000000000000CD000ED0000000000000CE000EE0000000000"
    \o "000CF000EF0000000000000D0000F00000000000000D1000F10000000000000D2000F20000000000000D3000F30000000000"
    \o "000D4000F40000000000000D5000F50000000000000D6000F60000000000000D8000F80000000000000D9000F90000000000"
    \o "000DA000FA0000000000000DB000FB0000000000000DC000FC0000000000000DD000FD0000000000000DE000FE0000000000"
    \o "0010000101000000000000102001030000000000001040010500000000000010600107000000000000108001090000000000"
    \o "0010A0010B00000000000010C0010D00000000000010E0010F00000000000011000111000000000000112001130000000000"
    \o "0011400115000000000000116001170000000000001180011900000000000011A0011B00000000000011C0011D0000000000"
    \o "0011E0011F000000000000120001210000000000001220012300000000000012400125000000000000126001270000000000"
    \o "001280012900000000000012A0012B00000000000012C0012D00000000000012E0012F000000000000130000690030700000"
    \o "001320013300000000000013400135000000000000136001370000000000001390013A00000000000013B0013C0000000000"
    \o "0013D0013E00000000000013F001400000000000001410014200000000000014300144000000000000145001460000000000"
    \o "001470014800000000000014A0014B00000000000014C0014D00000000000014E0014F000000000000150001510000000000"
    \o "001520015300000000000015400155000000000000156001570000000000001580015900000000000015A0015B0000000000"
    \o "0015C0015D00000000000015E0015F0000000000001600016100000000000016200163000000000000164001650000000000"
    \o "00166001670000000000001680016900000000000016A0016B00000000000016C0016D00000000000016E0016F0000000000"
    \o "0017000171000000000000172001730000000000001740017500000000000017600177000000000000178000FF0000000000"
    \o "001790017A00000000000017B0017C00000000000017D0017E00000000000018100253000000000000182001830000000000"
    \o "001840018500000000000018600254000000000000187001880000000000001890025600000000000018A002570000000000"
    \o "0018B0018C00000000000018E001DD00000000000018F002590000000000001900025B000000000000191001920000000000"
    \o "0019300260000000000000194002630000000000001960026900000000000019700268000000000000198001990000000000"
    \o "0019C0026F00000000000019D0027200000000000019F002750000000000001A0001A10000000000001A2001A30000000000"
    \o "001A4001A50000000000001A6002800000000000001A7001A80000000000001A9002830000000000001AC001AD0000000000"
    \o "001AE002880000000000001AF001B00000000000001B10028A0000000000001B20028B0000000000001B3001B40000000000"
    \o "001B5001B60000000000001B7002920000000000001B8001B90000000000001BC001BD0000000000001C4001C60000000000"
    \o "001C5001C60000000000001C7001C90000000000001C8001C90000000000001CA001CC0000000000001CB001CC0000000000"
    \o "001CD001CE0000000000001CF001D00000000000001D1001D20000000000001D3001D40000000000001D5001D60000000000"
    \o "001D7001D80000000000001D9001DA0000000000001DB001DC0000000000001DE001DF0000000000001E0001E10000000000"
    \o "001E2001E30000000000001E4001E50000000000001E6001E70000000000001E8001E90000000000001EA001EB0000000000"
    \o "001EC001ED0000000000001EE001EF0000000000001F1001F30000000000001F2001F30000000000001F4001F50000000000"
    \o "001F6001950000000000001F7001BF0000000000001F8001F90000000000001FA001FB0000000000001FC001FD0000000000"
    \o "001FE001FF000000000000200002010000000000002020020300000000000020400205000000000000206002070000000000"
    \o "002080020900000000000020A0020B00000000000020C0020D00000000000020E0020F000000000000210002110000000000"
    \o "002120021300000000000021400215000000000000216002170000000000002180021900000000000021A0021B0000000000"
    \o "0021C0021D00000000000021E0021F0000000000002200019E00000000000022200223000000000000224002250000000000"
    \o "00226002270000000000002280022900000000000022A0022B00000000000022C0022D00000000000022E0022F0000000000"
    \o "00230002310000000000002320023300000000000023A02C6500000000000023B0023C00000000000023D0019A0000000000"
    \o "0023E02C660000000000002410024200000000000024300180000000000000244002890000000000002450028C0000000000"
    \o "00246002470000000000002480024900000000000024A0024B00000000000024C0024D00000000000024E0024F0000000000"
    \o "0037000371000000000000372003730000000000003760037700000000000037F003F3000000000000386003AC0000000000"
    \o "00388003AD000000000000389003AE00000000000038A003AF00000000000038C003CC00000000000038E003CD0000000000"
    \o "0038F003CE000000000000391003B1000000000000392003B2000000000000393003B3000000000000394003B40000000000"
    \o "00395003B5000000000000396003B6000000000000397003B7000000000000398003B8000000000000399003B90000000000"
    \o "0039A003BA00000000000039B003BB00000000000039C003BC00000000000039D003BD00000000000039E003BE0000000000"
    \o "0039F003BF0000000000003A0003C00000000000003A1003C10000000000003A3003C30000000000003A4003C40000000000"
    \o "003A5003C50000000000003A6003C60000000000003A7003C70000000000003A8003C80000000000003A9003C90000000000"
    \o "003AA003CA0000000000003AB003CB0000000000003CF003D70000000000003D8003D90000000000003DA003DB0000000000"
    \o "003DC003DD0000000000003DE003DF0000000000003E0003E10000000000003E2003E30000000000003E4003E50000000000"
    \o "003E6003E70000000000003E8003E90000000000003EA003EB0000000000003EC003ED0000000000003EE003EF0000000000"
    \o "003F4003B80000000000003F7003F80000000000003F9003F20000000000003FA003FB0000000000003FD0037B0000000000"
    \o "003FE0037C0000000000003FF0037D0000000000004000045000000000000040100451000000000000402004520000000000"
    \o "0040300453000000000000404004540000000000004050045500000000000040600456000000000000407004570000000000"
    \o "00408004580000000000004090045900000000000040A0045A00000000000040B0045B00000000000040C0045C0000000000"
    \o "0040D0045D00000000000040E0045E00000000000040F0045F00000000000041000430000000000000411004310000000000"
    \o "0041200432000000000000413004330000000000004140043400000000000041500435000000000000416004360000000000"
    \o "0041700437000000000000418004380000000000004190043900000000000041A0043A00000000000041B0043B0000000000"
    \o "0041C0043C00000000000041D0043D00000000000041E0043E00000000000041F0043F000000000000420004400000000000"
    \o "0042100441000000000000422004420000000000004230044300000000000042400444000000000000425004450000000000"
    \o "004260044600000000000042700447000000000000428004480000000000004290044900000000000042A0044A0000000000"
    \o "0042B0044B00000000000042C0044C00000000000042D0044D00000000000042E0044E00000000000042F0044F0000000000"
    \o "0046000461000000000000462004630000000000004640046500000000000046600467000000000000468004690000000000"
    \o "0046A0046B00000000000046C0046D00000000000046E0046F00000000000047000471000000000000472004730000000000"
    \o "0047400475000000000000476004770000000000004780047900000000000047A0047B00000000000047C0047D0000000000"
    \o "0047E0047F0000000000004800048100000000000048A0048B00000000000048C0048D00000000000048E0048F0000000000"
    \o "0049000491000000000000492004930000000000004940049500000000000049600497000000000000498004990000000000"
    \o "0049A0049B00000000000049C0049D00000000000049E0049F0000000000004A0004A10000000000004A2004A30000000000"
    \o "004A4004A50000000000004A6004A70000000000004A8004A90000000000004AA004AB0000000000004AC004AD0000000000"
    \o "004AE004AF0000000000004B0004B10000000000004B2004B30000000000004B4004B50000000000004B6004B70000000000"
    \o "004B8004B90000000000004BA004BB0000000000004BC004BD0000000000004BE004BF0000000000004C0004CF0000000000"
    \o "004C1004C20000000000004C3004C40000000000004C5004C60000000000004C7004C80000000000004C9004CA0000000000"
    \o "004CB004CC0000000000004CD004CE0000000000004D0004D10000000000004D2004D30000000000004D4004D50000000000"
    \o "004D6004D70000000000004D8004D90000000000004DA004DB0000000000004DC004DD0000000000004DE004DF0000000000"
    \o "004E0004E10000000000004E2004E30000000000004E4004E50000000000004E6004E70000000000004E8004E90000000000"
    \o "004EA004EB0000000000004EC004ED0000000000004EE004EF0000000000004F0004F10000000000004F2004F30000000000"
    \o "004F4004F50000000000004F6004F70000000000004F8004F90000000000004FA004FB0000000000004FC004FD0000000000"
    \o "004FE004FF000000000000500005010000000000005020050300000000000050400505000000000000506005070000000000"
    \o "005080050900000000000050A0050B00000000000050C0050D00000000000050E0050F000000000000510005110000000000"
    \o "005120051300000000000051400515000000000000516005170000000000005180051900000000000051A0051B0000000000"
    \o "0051C0051D00000000000051E0051F0000000000005200052100000000000052200523000000000000524005250000000000"
    \o "00526005270000000000005280052900000000000052A0052B00000000000052C0052D00000000000052E0052F0000000000"
    \o "0053100561000000000000532005620000000000005330056300000000000053400564000000000000535005650000000000"
    \o "005360056600000000000053700567000000000000538005680000000000005390056900000000000053A0056A0000000000"
    \o "0053B0056B00000000000053C0056C00000000000053D0056D00000000000053E0056E00000000000053F0056F0000000000"
    \o "0054000570000000000000541005710000000000005420057200000000000054300573000000000000544005740000000000"
    \o "0054500575000000000000546005760000000000005470057700000000000054800578000000000000549005790000000000"
    \o "0054A0057A00000000000054B0057B00000000000054C0057C00000000000054D0057D00000000000054E0057E0000000000"
    \o "0054F0057F000000000000550005800000000000005510058100000000000055200582000000000000553005830000000000"
    \o "005540058400000000000055500585000000000000556005860000000000010A002D000000000000010A102D010000000000"
    \o "010A202D020000000000010A302D030000000000010A402D040000000000010A502D050000000000010A602D060000000000"
    \o "010A702D070000000000010A802D080000000000010A902D090000000000010AA02D0A0000000000010AB02D0B0000000000"
    \o "010AC02D0C0000000000010AD02D0D0000000000010AE02D0E0000000000010AF02D0F0000000000010B002D100000000000"
    \o "010B102D110000000000010B202D120000000000010B302D130000000000010B402D140000000000010B502D150000000000"
    \o "010B602D160000000000010B702D170000000000010B802D180000000000010B902D190000000000010BA02D1A0000000000"
    \o "010BB02D1B0000000000010BC02D1C0000000000010BD02D1D0000000000010BE02D1E0000000000010BF02D1F0000000000"
    \o "010C002D200000000000010C102D210000000000010C202D220000000000010C302D230000000000010C402D240000000000"
    \o "010C502D250000000000010C702D270000000000010CD02D2D0000000000013A00AB700000000000013A10AB710000000000"
    \o "013A20AB720000000000013A30AB730000000000013A40AB740000000000013A50AB750000000000013A60AB760000000000"
    \o "013A70AB770000000000013A80AB780000000000013A90AB790000000000013AA0AB7A0000000000013AB0AB7B0000000000"
    \o "013AC0AB7C0000000000013AD0AB7D0000000000013AE0AB7E0000000000013AF0AB7F0000000000013B00AB800000000000"
    \o "013B10AB810000000000013B20AB820000000000013B30AB830000000000013B40AB840000000000013B50AB850000000000"
    \o "013B60AB860000000000013B70AB870000000000013B80AB880000000000013B90AB890000000000013BA0AB8A0000000000"
    \o "013BB0AB8B0000000000013BC0AB8C0000000000013BD0AB8D0000000000013BE0AB8E0000000000013BF0AB8F0000000000"
    \o "013C00AB900000000000013C10AB910000000000013C20AB920000000000013C30AB930000000000013C40AB940000000000"
    \o "013C50AB950000000000013C60AB960000000000013C70AB970000000000013C80AB980000000000013C90AB990000000000"
    \o "013CA0AB9A0000000000013CB0AB9B0000000000013CC0AB9C0000000000013CD0AB9D0000000000013CE0AB9E0000000000"
    \o "013CF0AB9F0000000000013D00ABA00000000000013D10ABA10000000000013D20ABA20000000000013D30ABA30000000000"
    \o "013D40ABA40000000000013D50ABA50000000000013D60ABA60000000000013D70ABA70000000000013D80ABA80000000000"
    \o "013D90ABA90000000000013DA0ABAA0000000000013DB0ABAB0000000000013DC0ABAC0000000000013DD0ABAD0000000000"
    \o "013DE0ABAE0000000000013DF0ABAF0000000000013E00ABB00000000000013E10ABB10000000000013E20ABB20000000000"
    \o "013E30ABB30000000000013E40ABB40000000000013E50ABB50000000000013E60ABB60000000000013E70ABB70000000000"
    \o "013E80ABB80000000000013E90ABB90000000000013EA0ABBA0000000000013EB0ABBB0000000000013EC0ABBC0000000000"
    \o "013ED0ABBD0000000000013EE0ABBE0000000000013EF0ABBF0000000000013F0013F80000000000013F1013F90000000000"
    \o "013F2013FA0000000000013F3013FB0000000000013F4013FC0000000000013F5013FD000000000001C8901C8A0000000000"
    \o "01C90010D0000000000001C91010D1000000000001C92010D2000000000001C93010D3000000000001C94010D40000000000"
    \o "01C95010D5000000000001C96010D6000000000001C97010D7000000000001C98010D8000000000001C99010D90000000000"
    \o "01C9A010DA000000000001C9B010DB000000000001C9C010DC000000000001C9D010DD000000000001C9E010DE0000000000"
    \o "01C9F010DF000000000001CA0010E0000000000001CA1010E1000000000001CA2010E2000000000001CA3010E30000000000"
    \o "01CA4010E4000000000001CA5010E5000000000001CA6010E6000000000001CA7010E7000000000001CA8010E80000000000"
    \o "01CA9010E9000000000001CAA010EA000000000001CAB010EB000000000001CAC010EC000000000001CAD010ED0000000000"
    \o "01CAE010EE000000000001CAF010EF000000000001CB0010F0000000000001CB1010F1000000000001CB2010F20000000000"
    \o "01CB3010F3000000000001CB4010F4000000000001CB5010F5000000000001CB6010F6000000000001CB7010F70000000000"
    \o "01CB8010F8000000000001CB9010F9000000000001CBA010FA000000000001CBD010FD000000000001CBE010FE0000000000"
    \o "01CBF010FF000000000001E0001E01000000000001E0201E03000000000001E0401E05000000000001E0601E070000000000"
    \o "01E0801E09000000000001E0A01E0B000000000001E0C01E0D000000000001E0E01E0F000000000001E1001E110000000000"
    \o "01E1201E13000000000001E1401E15000000000001E1601E17000000000001E1801E19000000000001E1A01E1B0000000000"
    \o "01E1C01E1D000000000001E1E01E1F000000000001E2001E21000000000001E2201E23000000000001E2401E250000000000"
    \o "01E2601E27000000000001E2801E29000000000001E2A01E2B000000000001E2C01E2D000000000001E2E01E2F0000000000"
    \o "01E3001E31000000000001E3201E33000000000001E3401E35000000000001E3601E37000000000001E3801E390000000000"
    \o "01E3A01E3B000000000001E3C01E3D000000000001E3E01E3F000000000001E4001E41000000000001E4201E430000000000"
    \o "01E4401E45000000000001E4601E47000000000001E4801E49000000000001E4A01E4B000000000001E4C01E4D0000000000"
    \o "01E4E01E4F000000000001E5001E51000000000001E5201E53000000000001E5401E55000000000001E5601E570000000000"
    \o "01E5801E59000000000001E5A01E5B000000000001E5C01E5D000000000001E5E01E5F000000000001E6001E610000000000"
    \o "01E6201E63000000000001E6401E65000000000001E6601E67000000000001E6801E69000000000001E6A01E6B0000000000"
    \o "01E6C01E6D000000000001E6E01E6F000000000001E7001E71000000000001E7201E73000000000001E7401E750000000000"
    \o "01E7601E77000000000001E7801E79000000000001E7A01E7B000000000001E7C01E7D000000000001E7E01E7F0000000000"
    \o "01E8001E81000000000001E8201E83000000000001E8401E85000000000001E8601E87000000000001E8801E890000000000"
    \o "01E8A01E8B000000000001E8C01E8D000000000001E8E01E8F000000000001E9001E91000000000001E9201E930000000000"
    \o "01E9401E95000000000001E9E000DF000000000001EA001EA1000000000001EA201EA3000000000001EA401EA50000000000"
    \o "01EA601EA7000000000001EA801EA9000000000001EAA01EAB000000000001EAC01EAD000000000001EAE01EAF0000000000"
    \o "01EB001EB1000000000001EB201EB3000000000001EB401EB5000000000001EB601EB7000000000001EB801EB90000000000"
    \o "01EBA01EBB000000000001EBC01EBD000000000001EBE01EBF000000000001EC001EC1000000000001EC201EC30000000000"
    \o "01EC401EC5000000000001EC601EC7000000000001EC801EC9000000000001ECA01ECB000000000001ECC01ECD0000000000"
    \o "01ECE01ECF000000000001ED001ED1000000000001ED201ED3000000000001ED401ED5000000000001ED601ED70000000000"
    \o "01ED801ED9000000000001EDA01EDB000000000001EDC01EDD000000000001EDE01EDF000000000001EE001EE10000000000"
    \o "01EE201EE3000000000001EE401EE5000000000001EE601EE7000000000001EE801EE9000000000001EEA01EEB0000000000"
    \o "01EEC01EED000000000001EEE01EEF000000000001EF001EF1000000000001EF201EF3000000000001EF401EF50000000000"
    \o "01EF601EF7000000000001EF801EF9000000000001EFA01EFB000000000001EFC01EFD000000000001EFE01EFF0000000000"
    \o "01F0801F00000000000001F0901F01000000000001F0A01F02000000000001F0B01F03000000000001F0C01F040000000000"
    \o "01F0D01F05000000000001F0E01F06000000000001F0F01F07000000000001F1801F10000000000001F1901F110000000000"
    \o "01F1A01F12000000000001F1B01F13000000000001F1C01F14000000000001F1D01F15000000000001F2801F200000000000"
    \o "01F2901F21000000000001F2A01F22000000000001F2B01F23000000000001F2C01F24000000000001F2D01F250000000000"
    \o "01F2E01F26000000000001F2F01F27000000000001F3801F30000000000001F3901F31000000000001F3A01F320000000000"
    \o "01F3B01F33000000000001F3C01F34000000000001F3D01F35000000000001F3E01F36000000000001F3F01F370000000000"
    \o "01F4801F40000000000001F4901F41000000000001F4A01F42000000000001F4B01F43000000000001F4C01F440000000000"
    \o "01F4D01F45000000000001F5901F51000000000001F5B01F53000000000001F5D01F55000000000001F5F01F570000000000"
    \o "01F6801F60000000000001F6901F61000000000001F6A01F62000000000001F6B01F63000000000001F6C01F640000000000"
    \o "01F6D01F65000000000001F6E01F66000000000001F6F01F67000000000001F8801F80000000000001F8901F810000000000"
    \o "01F8A01F82000000000001F8B01F83000000000001F8C01F84000000000001F8D01F85000000000001F8E01F860000000000"
    \o "01F8F01F87000000000001F9801F90000000000001F9901F91000000000001F9A01F92000000000001F9B01F930000000000"
    \o "01F9C01F94000000000001F9D01F95000000000001F9E01F96000000000001F9F01F97000000000001FA801FA00000000000"
    \o "01FA901FA1000000000001FAA01FA2000000000001FAB01FA3000000000001FAC01FA4000000000001FAD01FA50000000000"
    \o "01FAE01FA6000000000001FAF01FA7000000000001FB801FB0000000000001FB901FB1000000000001FBA01F700000000000"
    \o "01FBB01F71000000000001FBC01FB3000000000001FC801F72000000000001FC901F73000000000001FCA01F740000000000"
    \o "01FCB01F75000000000001FCC01FC3000000000001FD801FD0000000000001FD901FD1000000000001FDA01F760000000000"
    \o "01FDB01F77000000000001FE801FE0000000000001FE901FE1000000000001FEA01F7A000000000001FEB01F7B0000000000"
    \o "01FEC01FE5000000000001FF801F78000000000001FF901F79000000000001FFA01F7C000000000001FFB01F7D0000000000"
    \o "01FFC01FF3000000000002126003C900000000000212A0006B00000000000212B000E50000000000021320214E0000000000"
    \o "0216002170000000000002161021710000000000021620217200000000000216302173000000000002164021740000000000"
    \o "0216502175000000000002166021760000000000021670217700000000000216802178000000000002169021790000000000"
    \o "0216A0217A00000000000216B0217B00000000000216C0217C00000000000216D0217D00000000000216E0217E0000000000"
    \o "0216F0217F000000000002183021840000000000024B6024D00000000000024B7024D10000000000024B8024D20000000000"
    \o "024B9024D30000000000024BA024D40000000000024BB024D50000000000024BC024D60000000000024BD024D70000000000"
    \o "024BE024D80000000000024BF024D90000000000024C0024DA0000000000024C1024DB0000000000024C2024DC0000000000"
    \o "024C3024DD0000000000024C4024DE0000000000024C5024DF0000000000024C6024E00000000000024C7024E10000000000"
    \o "024C8024E20000000000024C9024E30000000000024CA024E40000000000024CB024E50000000000024CC024E60000000000"
    \o "024CD024E70000000000024CE024E80000000000024CF024E9000000000002C0002C30000000000002C0102C310000000000"
    \o "02C0202C32000000000002C0302C33000000000002C0402C34000000000002C0502C35000000000002C0602C360000000000"
    \o "02C0702C37000000000002C0802C38000000000002C0902C39000000000002C0A02C3A000000000002C0B02C3B0000000000"
    \o "02C0C02C3C000000000002C0D02C3D000000000002C0E02C3E000000000002C0F02C3F000000000002C1002C400000000000"
    \o "02C1102C41000000000002C1202C42000000000002C1302C43000000000002C1402C44000000000002C1502C450000000000"
    \o "02C1602C46000000000002C1702C47000000000002C1802C48000000000002C1902C49000000000002C1A02C4A0000000000"
    \o "02C1B02C4B000000000002C1C02C4C000000000002C1D02C4D000000000002C1E02C4E000000000002C1F02C4F0000000000"
    \o "02C2002C50000000000002C2102C51000000000002C2202C52000000000002C2302C53000000000002C2402C540000000000"
    \o "02C2502C55000000000002C2602C56000000000002C2702C57000000000002C2802C58000000000002C2902C590000000000"
    \o "02C2A02C5A000000000002C2B02C5B000000000002C2C02C5C000000000002C2D02C5D000000000002C2E02C5E0000000000"
    \o "02C2F02C5F000000000002C6002C61000000000002C620026B000000000002C6301D7D000000000002C640027D0000000000"
    \o "02C6702C68000000000002C6902C6A000000000002C6B02C6C000000000002C6D00251000000000002C6E002710000000000"
    \o "02C6F00250000000000002C7000252000000000002C7202C73000000000002C7502C76000000000002C7E0023F0000000000"
    \o "02C7F00240000000000002C8002C81000000000002C8202C83000000000002C8402C85000000000002C8602C870000000000"
    \o "02C8802C89000000000002C8A02C8B000000000002C8C02C8D000000000002C8E02C8F000000000002C9002C910000000000"
    \o "02C9202C93000000000002C9402C95000000000002C9602C97000000000002C9802C99000000000002C9A02C9B0000000000"
    \o "02C9C02C9D000000000002C9E02C9F000000000002CA002CA1000000000002CA202CA3000000000002CA402CA50000000000"
    \o "02CA602CA7000000000002CA802CA9000000000002CAA02CAB000000000002CAC02CAD000000000002CAE02CAF0000000000"
    \o "02CB002CB1000000000002CB202CB3000000000002CB402CB5000000000002CB602CB7000000000002CB802CB90000000000"
    \o "02CBA02CBB000000000002CBC02CBD000000000002CBE02CBF000000000002CC002CC1000000000002CC202CC30000000000"
    \o "02CC402CC5000000000002CC602CC7000000000002CC802CC9000000000002CCA02CCB000000000002CCC02CCD0000000000"
    \o "02CCE02CCF000000000002CD002CD1000000000002CD202CD3000000000002CD402CD5000000000002CD602CD70000000000"
    \o "02CD802CD9000000000002CDA02CDB000000000002CDC02CDD000000000002CDE02CDF000000000002CE002CE10000000000"
    \o "02CE202CE3000000000002CEB02CEC000000000002CED02CEE000000000002CF202CF300000000000A6400A6410000000000"
    \o "0A6420A64300000000000A6440A64500000000000A6460A64700000000000A6480A64900000000000A64A0A64B0000000000"
    \o "0A64C0A64D00000000000A64E0A64F00000000000A6500A65100000000000A6520A65300000000000A6540A6550000000000"
    \o "0A6560A65700000000000A6580A65900000000000A65A0A65B00000000000A65C0A65D00000000000A65E0A65F0000000000"
    \o "0A6600A66100000000000A6620A66300000000000A6640A66500000000000A6660A66700000000000A6680A6690000000000"
    \o "0A66A0A66B00000000000A66C0A66D00000000000A6800A68100000000000A6820A68300000000000A6840A6850000000000"
    \o "0A6860A68700000000000A6880A68900000000000A68A0A68B00000000000A68C0A68D00000000000A68E0A68F0000000000"
    \o "0A6900A69100000000000A6920A69300000000000A6940A69500000000000A6960A69700000000000A6980A6990000000000"
    \o "0A69A0A69B00000000000A7220A72300000000000A7240A72500000000000A7260A72700000000000A7280A7290000000000"
    \o "0A72A0A72B00000000000A72C0A72D00000000000A72E0A72F00000000000A7320A73300000000000A7340A7350000000000"
    \o "0A7360A73700000000000A7380A73900000000000A73A0A73B00000000000A73C0A73D00000000000A73E0A73F0000000000"
    \o "0A7400A74100000000000A7420A74300000000000A7440A74500000000000A7460A74700000000000A7480A7490000000000"
    \o "0A74A0A74B00000000000A74C0A74D00000000000A74E0A74F00000000000A7500A75100000000000A7520A7530000000000"
    \o "0A7540A75500000000000A7560A75700000000000A7580A75900000000000A75A0A75B00000000000A75C0A75D0000000000"
    \o "0A75E0A75F00000000000A7600A76100000000000A7620A76300000000000A7640A76500000000000A7660A7670000000000"
    \o "0A7680A76900000000000A76A0A76B00000000000A76C0A76D00000000000A76E0A76F00000000000A7790A77A0000000000"
    \o "0A77B0A77C00000000000A77D01D7900000000000A77E0A77F00000000000A7800A78100000000000A7820A7830000000000"
    \o "0A7840A78500000000000A7860A78700000000000A78B0A78C00000000000A78D0026500000000000A7900A7910000000000"
    \o "0A7920A79300000000000A7960A79700000000000A7980A79900000000000A79A0A79B00000000000A79C0A79D0000000000"
    \o "0A79E0A79F00000000000A7A00A7A100000000000A7A20A7A300000000000A7A40A7A500000000000A7A60A7A70000000000"
    \o "0A7A80A7A900000000000A7AA0026600000000000A7AB0025C00000000000A7AC0026100000000000A7AD0026C0000000000"
    \o "0A7AE0026A00000000000A7B00029E00000000000A7B10028700000000000A7B20029D00000000000A7B30AB530000000000"
    \o "0A7B40A7B500000000000A7B60A7B700000000000A7B80A7B900000000000A7BA0A7BB00000000000A7BC0A7BD0000000000"
    \o "0A7BE0A7BF00000000000A7C00A7C100000000000A7C20A7C300000000000A7C40A79400000000000A7C5002820000000000"
    \o "0A7C601D8E00000000000A7C70A7C800000000000A7C90A7CA00000000000A7CB0026400000000000A7CC0A7CD0000000000"
    \o "0A7CE0A7CF00000000000A7D00A7D100000000000A7D20A7D300000000000A7D40A7D500000000000A7D60A7D70000000000"
    \o "0A7D80A7D900000000000A7DA0A7DB00000000000A7DC0019B00000000000A7F50A7F600000000000FF210FF410000000000"
    \o "0FF220FF4200000000000FF230FF4300000000000FF240FF4400000000000FF250FF4500000000000FF260FF460000000000"
    \o "0FF270FF4700000000000FF280FF4800000000000FF290FF4900000000000FF2A0FF4A00000000000FF2B0FF4B0000000000"
    \o "0FF2C0FF4C00000000000FF2D0FF4D00000000000FF2E0FF4E00000000000FF2F0FF4F00000000000FF300FF500000000000"
    \o "0FF310FF5100000000000FF320FF5200000000000FF330FF5300000000000FF340FF5400000000000FF350FF550000000000"
    \o "0FF360FF5600000000000FF370FF5700000000000FF380FF5800000000000FF390FF5900000000000FF3A0FF5A0000000000"
    \o "1040010428000000000010401104290000000000104021042A0000000000104031042B0000000000104041042C0000000000"
    \o "104051042D0000000000104061042E0000000000104071042F00000000001040810430000000000010409104310000000000"
    \o "1040A1043200000000001040B1043300000000001040C1043400000000001040D1043500000000001040E104360000000000"
    \o "1040F1043700000000001041010438000000000010411104390000000000104121043A0000000000104131043B0000000000"
    \o "104141043C0000000000104151043D0000000000104161043E0000000000104171043F000000000010418104400000000000"
    \o "104191044100000000001041A1044200000000001041B1044300000000001041C1044400000000001041D104450000000000"
    \o "1041E1044600000000001041F1044700000000001042010448000000000010421104490000000000104221044A0000000000"
    \o "104231044B0000000000104241044C0000000000104251044D0000000000104261044E0000000000104271044F0000000000"
    \o "104B0104D80000000000104B1104D90000000000104B2104DA0000000000104B3104DB0000000000104B4104DC0000000000"
    \o "104B5104DD0000000000104B6104DE0000000000104B7104DF0000000000104B8104E00000000000104B9104E10000000000"
    \o "104BA104E20000000000104BB104E30000000000104BC104E40000000000104BD104E50000000000104BE104E60000000000"
    \o "104BF104E70000000000104C0104E80000000000104C1104E90000000000104C2104EA0000000000104C3104EB0000000000"
    \o "104C4104EC0000000000104C5104ED0000000000104C6104EE0000000000104C7104EF0000000000104C8104F00000000000"
    \o "104C9104F10000000000104CA104F20000000000104CB104F30000000000104CC104F40000000000104CD104F50000000000"
    \o "104CE104F60000000000104CF104F70000000000104D0104F80000000000104D1104F90000000000104D2104FA0000000000"
    \o "104D3104FB0000000000105701059700000000001057110598000000000010572105990000000000105731059A0000000000"
    \o "105741059B0000000000105751059C0000000000105761059D0000000000105771059E0000000000105781059F0000000000"
    \o "10579105A000000000001057A105A100000000001057C105A300000000001057D105A400000000001057E105A50000000000"
    \o "1057F105A6000000000010580105A7000000000010581105A8000000000010582105A9000000000010583105AA0000000000"
    \o "10584105AB000000000010585105AC000000000010586105AD000000000010587105AE000000000010588105AF0000000000"
    \o "10589105B000000000001058A105B100000000001058C105B300000000001058D105B400000000001058E105B50000000000"
    \o "1058F105B6000000000010590105B7000000000010591105B8000000000010592105B9000000000010594105BB0000000000"
    \o "10595105BC000000000010C8010CC0000000000010C8110CC1000000000010C8210CC2000000000010C8310CC30000000000"
    \o "10C8410CC4000000000010C8510CC5000000000010C8610CC6000000000010C8710CC7000000000010C8810CC80000000000"
    \o "10C8910CC9000000000010C8A10CCA000000000010C8B10CCB000000000010C8C10CCC000000000010C8D10CCD0000000000"
    \o "10C8E10CCE000000000010C8F10CCF000000000010C9010CD0000000000010C9110CD1000000000010C9210CD20000000000"
    \o "10C9310CD3000000000010C9410CD4000000000010C9510CD5000000000010C9610CD6000000000010C9710CD70000000000"
    \o "10C9810CD8000000000010C9910CD9000000000010C9A10CDA000000000010C9B10CDB000000000010C9C10CDC0000000000"
    \o "10C9D10CDD000000000010C9E10CDE000000000010C9F10CDF000000000010CA010CE0000000000010CA110CE10000000000"
    \o "10CA210CE2000000000010CA310CE3000000000010CA410CE4000000000010CA510CE5000000000010CA610CE60000000000"
    \o "10CA710CE7000000000010CA810CE8000000000010CA910CE9000000000010CAA10CEA000000000010CAB10CEB0000000000"
    \o "10CAC10CEC000000000010CAD10CED000000000010CAE10CEE000000000010CAF10CEF000000000010CB010CF00000000000"
    \o "10CB110CF1000000000010CB210CF2000000000010D5010D70000000000010D5110D71000000000010D5210D720000000000"
    \o "10D5310D73000000000010D5410D74000000000010D5510D75000000000010D5610D76000000000010D5710D770000000000"
    \o "10D5810D78000000000010D5910D79000000000010D5A10D7A000000000010D5B10D7B000000000010D5C10D7C0000000000"
    \o "10D5D10D7D000000000010D5E10D7E000000000010D5F10D7F000000000010D6010D80000000000010D6110D810000000000"
    \o "10D6210D82000000000010D6310D83000000000010D6410D84000000000010D6510D850000000000118A0118C00000000000"
    \o "118A1118C10000000000118A2118C20000000000118A3118C30000000000118A4118C40000000000118A5118C50000000000"
    \o "118A6118C60000000000118A7118C70000000000118A8118C80000000000118A9118C90000000000118AA118CA0000000000"
    \o "118AB118CB0000000000118AC118CC0000000000118AD118CD0000000000118AE118CE0000000000118AF118CF0000000000"
    \o "118B0118D00000000000118B1118D10000000000118B2118D20000000000118B3118D30000000000118B4118D40000000000"
    \o "118B5118D50000000000118B6118D60000000000118B7118D70000000000118B8118D80000000000118B9118D90000000000"
    \o "118BA118DA0000000000118BB118DB0000000000118BC118DC0000000000118BD118DD0000000000118BE118DE0000000000"
    \o "118BF118DF000000000016E4016E60000000000016E4116E61000000000016E4216E62000000000016E4316E630000000000"
    \o "16E4416E64000000000016E4516E65000000000016E4616E66000000000016E4716E67000000000016E4816E680000000000"
    \o "16E4916E69000000000016E4A16E6A000000000016E4B16E6B000000000016E4C16E6C000000000016E4D16E6D0000000000"
    \o "16E4E16E6E000000000016E4F16E6F000000000016E5016E70000000000016E5116E71000000000016E5216E720000000000"
    \o "16E5316E73000000000016E5416E74000000000016E5516E75000000000016E5616E76000000000016E5716E770000000000"
    \o "16E5816E78000000000016E5916E79000000000016E5A16E7A000000000016E5B16E7B000000000016E5C16E7C0000000000"
    \o "16E5D16E7D000000000016E5E16E7E000000000016E5F16E7F000000000016EA016EBB000000000016EA116EBC0000000000"
    \o "16EA216EBD000000000016EA316EBE000000000016EA416EBF000000000016EA516EC0000000000016EA616EC10000000000"
    \o "16EA716EC2000000000016EA816EC3000000000016EA916EC4000000000016EAA16EC5000000000016EAB16EC60000000000"
    \o "16EAC16EC7000000000016EAD16EC8000000000016EAE16EC9000000000016EAF16ECA000000000016EB016ECB0000000000"
    \o "16EB116ECC000000000016EB216ECD000000000016EB316ECE000000000016EB416ECF000000000016EB516ED00000000000"
    \o "16EB616ED1000000000016EB716ED2000000000016EB816ED300000000001E9001E92200000000001E9011E9230000000000"
    \o "1E9021E92400000000001E9031E92500000000001E9041E92600000000001E9051E92700000000001E9061E9280000000000"
    \o "1E9071E92900000000001E9081E92A00000000001E9091E92B00000000001E90A1E92C00000000001E90B1E92D0000000000"
    \o "1E90C1E92E00000000001E90D1E92F00000000001E90E1E93000000000001E90F1E93100000000001E9101E9320000000000"
    \o "1E9111E93300000000001E9121E93400000000001E9131E93500000000001E9141E93600000000001E9151E9370000000000"
    \o "1E9161E93800000000001E9171E93900000000001E9181E93A00000000001E9191E93B00000000001E91A1E93C0000000000"
    \o "1E91B1E93D00000000001E91C1E93E00000000001E91D1E93F00000000001E91E1E94000000000001E91F1E9410000000000"
    \o "1E9201E94200000000001E9211E9430000000000"

\* Case_Ignorable: an entry of ten digits for every range of its code points, the
\* first and the last
CASE_IGNORABLE_RANGES ==
    "00027000270002E0002E0003A0003A0005E0005E0006000060000A8000A8000AD000AD000AF000AF000B4000B4000B7000B8"
    \o "002B00036F00374003750037A0037A00384003850038700387004830048900559005590055F0055F00591005BD005BF005BF"
    \o "005C1005C2005C4005C5005C7005C7005F4005F40060000605006100061A0061C0061C00640006400064B0065F0067000670"
    \o "006D6006DD006DF006E8006EA006ED0070F0070F0071100711007300074A007A6007B0007EB007F5007FA007FA007FD007FD"
    \o "008160082D008590085B00888008880089000891008970089F008C9009020093A0093A0093C0093C00941009480094D0094D"
    \o "0095100957009620096300971009710098100981009BC009BC009C1009C4009CD009CD009E2009E3009FE009FE00A0100A02"
    \o "00A3C00A3C00A4100A4200A4700A4800A4B00A4D00A5100A5100A7000A7100A7500A7500A8100A8200ABC00ABC00AC100AC5"
    \o "00AC700AC800ACD00ACD00AE200AE300AFA00AFF00B0100B0100B3C00B3C00B3F00B3F00B4100B4400B4D00B4D00B5500B56"
    \o "00B6200B6300B8200B8200BC000BC000BCD00BCD00C0000C0000C0400C0400C3C00C3C00C3E00C4000C4600C4800C4A00C4D"
    \o "00C5500C5600C6200C6300C8100C8100CBC00CBC00CBF00CBF00CC600CC600CCC00CCD00CE200CE300D0000D0100D3B00D3C"
    \o "00D4100D4400D4D00D4D00D6200D6300D8100D8100DCA00DCA00DD200DD400DD600DD600E3100E3100E3400E3A00E4600E4E"
    \o "00EB100EB100EB400EBC00EC600EC600EC800ECE00F1800F1900F3500F3500F3700F3700F3900F3900F7100F7E00F8000F84"
    \o "00F8600F8700F8D00F9700F9900FBC00FC600FC60102D010300103201037010390103A0103D0103E01058010590105E01060"
    \o "0107101074010820108201085010860108D0108D0109D0109D010FC010FC0135D0135F017120171401732017330175201753"
    \o "0177201773017B4017B5017B7017BD017C6017C6017C9017D3017D7017D7017DD017DD0180B0180F01843018430188501886"
    \o "018A9018A9019200192201927019280193201932019390193B01A1701A1801A1B01A1B01A5601A5601A5801A5E01A6001A60"
    \o "01A6201A6201A6501A6C01A7301A7C01A7F01A7F01AA701AA701AB001ADD01AE001AEB01B0001B0301B3401B3401B3601B3A"
    \o "01B3C01B3C01B4201B4201B6B01B7301B8001B8101BA201BA501BA801BA901BAB01BAD01BE601BE601BE801BE901BED01BED"
    \o "01BEF01BF101C2C01C3301C3601C3701C7801C7D01CD001CD201CD401CE001CE201CE801CED01CED01CF401CF401CF801CF9"
    \o "01D2C01D6A01D7801D7801D9B01DFF01FBD01FBD01FBF01FC101FCD01FCF01FDD01FDF01FED01FEF01FFD01FFE0200B0200F"
    \o "0201802019020240202402027020270202A0202E0206002064020660206F02071020710207F0207F020900209C020D0020F0"
    \o "02C7C02C7D02CEF02CF102D6F02D6F02D7F02D7F02DE002DFF02E2F02E2F03005030050302A0302D03031030350303B0303B"
    \o "030990309E030FC030FE0A0150A0150A4F80A4FD0A60C0A60C0A66F0A6720A6740A67D0A67F0A67F0A69C0A69F0A6F00A6F1"
    \o "0A7000A7210A7700A7700A7880A78A0A7F10A7F40A7F80A7F90A8020A8020A8060A8060A80B0A80B0A8250A8260A82C0A82C"
    \o "0A8C40A8C50A8E00A8F10A8FF0A8FF0A9260A92D0A9470A9510A9800A9820A9B30A9B30A9B60A9B90A9BC0A9BD0A9CF0A9CF"
    \o "0A9E50A9E60AA290AA2E0AA310AA320AA350AA360AA430AA430AA4C0AA4C0AA700AA700AA7C0AA7C0AAB00AAB00AAB20AAB4"
    \o "0AAB70AAB80AABE0AABF0AAC10AAC10AADD0AADD0AAEC0AAED0AAF30AAF40AAF60AAF60AB5B0AB5F0AB690AB6B0ABE50ABE5"
    \o "0ABE80ABE80ABED0ABED0FB1E0FB1E0FBB20FBC20FE000FE0F0FE130FE130FE200FE2F0FE520FE520FE550FE550FEFF0FEFF"
    \o "0FF070FF070FF0E0FF0E0FF1A0FF1A0FF3E0FF3E0FF400FF400FF700FF700FF9E0FF9F0FFE30FFE30FFF90FFFB101FD101FD"
    \o "102E0102E0103761037A107801078510787107B0107B2107BA10A0110A0310A0510A0610A0C10A0F10A3810A3A10A3F10A3F"
    \o "10AE510AE610D2410D2710D4E10D4E10D6910D6D10D6F10D6F10EAB10EAC10EC510EC510EFA10EFF10F4610F5010F8210F85"
    \o "11001110011103811046110701107011073110741107F11081110B3110B6110B9110BA110BD110BD110C2110C2110CD110CD"
    \o "1110011102111271112B1112D1113411173111731118011181111B6111BE111C9111CC111CF111CF1122F112311123411234"
    \o "11236112371123E1123E1124111241112DF112DF112E3112EA11300113011133B1133C1134011340113661136C1137011374"
    \o "113BB113C0113CE113CE113D0113D0113D2113D2113E1113E2114381143F114421144411446114461145E1145E114B3114B8"
    \o "114BA114BA114BF114C0114C2114C3115B2115B5115BC115BD115BF115C0115DC115DD116331163A1163D1163D1163F11640"
    \o "116AB116AB116AD116AD116B0116B5116B7116B71171D1171D1171F1171F1172211725117271172B1182F11837118391183A"
    \o "1193B1193C1193E1193E1194311943119D4119D7119DA119DB119E0119E011A0111A0A11A3311A3811A3B11A3E11A4711A47"
    \o "11A5111A5611A5911A5B11A8A11A9611A9811A9911B6011B6011B6211B6411B6611B6611C3011C3611C3811C3D11C3F11C3F"
    \o "11C9211CA711CAA11CB011CB211CB311CB511CB611D3111D3611D3A11D3A11D3C11D3D11D3F11D4511D4711D4711D9011D91"
    \o "11D9511D9511D9711D9711DD911DD911EF311EF411F0011F0111F3611F3A11F4011F4011F4211F4211F5A11F5A1343013440"
    \o "13447134551611E161291612D1612F16AF016AF416B3016B3616B4016B4316D4016D4216D6B16D6C16F4F16F4F16F8F16F9F"
    \o "16FE016FE116FE316FE416FF216FF31AFF01AFF31AFF51AFFB1AFFD1AFFE1BC9D1BC9E1BCA01BCA31CF001CF2D1CF301CF46"
    \o "1D1671D1691D1731D1821D1851D18B1D1AA1D1AD1D2421D2441DA001DA361DA3B1DA6C1DA751DA751DA841DA841DA9B1DA9F"
    \o "1DAA11DAAF1E0001E0061E0081E0181E01B1E0211E0231E0241E0261E02A1E0301E06D1E08F1E08F1E1301E13D1E2AE1E2AE"
    \o "1E2EC1E2EF1E4EB1E4EF1E5EE1E5EF1E6E31E6E31E6E61E6E61E6EE1E6EF1E6F51E6F51E6FF1E6FF1E8D01E8D61E9441E94B"
    \o "1F3FB1F3FFE0001E0001E0020E007FE0100E01EF"

\* Cased without Case_Ignorable, as ranges likewise
CASED_NOT_IGNORABLE_RANGES ==
    "000410005A000610007A000AA000AA000B5000B5000BA000BA000C0000D6000D8000F6000F8001BA001BC001BF001C400293"
    \o "00296002AF003700037300376003770037B0037D0037F0037F0038600386003880038A0038C0038C0038E003A1003A3003F5"
    \o "003F7004810048A0052F00531005560056000588010A0010C5010C7010C7010CD010CD010D0010FA010FD010FF013A0013F5"
    \o "013F8013FD01C8001C8A01C9001CBA01CBD01CBF01D0001D2B01D6B01D7701D7901D9A01E0001F1501F1801F1D01F2001F45"
    \o "01F4801F4D01F5001F5701F5901F5901F5B01F5B01F5D01F5D01F5F01F7D01F8001FB401FB601FBC01FBE01FBE01FC201FC4"
    \o "01FC601FCC01FD001FD301FD601FDB01FE001FEC01FF201FF401FF601FFC021020210202107021070210A021130211502115"
    \o "021190211D0212402124021260212602128021280212A0212D0212F0213402139021390213C0213F02145021490214E0214E"
    \o "021600217F0218302184024B6024E902C0002C7B02C7E02CE402CEB02CEE02CF202CF302D0002D2502D2702D2702D2D02D2D"
    \o "0A6400A66D0A6800A69B0A7220A76F0A7710A7870A78B0A78E0A7900A7DC0A7F50A7F60A7FA0A7FA0AB300AB5A0AB600AB68"
    \o "0AB700ABBF0FB000FB060FB130FB170FF210FF3A0FF410FF5A104001044F104B0104D3104D8104FB105701057A1057C1058A"
    \o "1058C10592105941059510597105A1105A3105B1105B3105B9105BB105BC10C8010CB210CC010CF210D5010D6510D7010D85"
    \o "118A0118DF16E4016E7F16EA016EB816EBB16ED31D4001D4541D4561D49C1D49E1D49F1D4A21D4A21D4A51D4A61D4A91D4AC"
    \o "1D4AE1D4B91D4BB1D4BB1D4BD1D4C31D4C51D5051D5071D50A1D50D1D5141D5161D51C1D51E1D5391D53B1D53E1D5401D544"
    \o "1D5461D5461D54A1D5501D5521D6A51D6A81D6C01D6C21D6DA1D6DC1D6FA1D6FC1D7141D7161D7341D7361D74E1D7501D76E"
    \o "1D7701D7881D78A1D7A81D7AA1D7C21D7C41D7CB1DF001DF091DF0B1DF1E1DF251DF2A1E9001E9431F1301F1491F1501F169"
    \o "1F1701F189"

LowerCase == <<"a","b","c","d","e","f","g","h","i","j","k","l","m","n","o","p","q","r","s","t","u","v","w","x","y","z">>
UpperCase == <<"A","B","C","D","E","F","G","H","I","J","K","L","M","N","O","P","Q","R","S","T","U","V","W","X","Y","Z">>

\* the number a text of hexadecimal digits writes
RECURSIVE from_hex(_)
from_hex(t) ==
    IF Len(t) = 0 THEN 0
    ELSE 16 * from_hex(SubSeq(t, 1, Len(t) - 1)) + (CHOOSE i \in 1..16 : UpperHex[i] = SubSeq(t, Len(t), Len(t))) - 1

\* c as u32: the code point of a character
char_to_u32(c) ==
    IF c = NUL THEN 0
    ELSE IF Len(c) > 3 THEN from_hex(SubSeq(c, 3, Len(c)))
    ELSE CHOOSE v \in 1..127 : Ascii[v] = c

\* the code points of entry k of a table whose entries take width digits
entry(table, width, k) ==
    [f \in 1..(width \div 5) |-> from_hex(SubSeq(table, width * (k - 1) + 5 * f - 4, width * (k - 1) + 5 * f))]

\* conversions::to_upper and conversions::to_lower on a character above U+007F: the
\* characters the entry of c gives, and c itself when the table has no entry of c
convert(table, c) ==
    LET key == SubSeq("00000", 1, 7 - Len(c)) \o SubSeq(c, 3, Len(c))
        hits == {k \in 1..(Len(table) \div 20) : SubSeq(table, 20 * k - 19, 20 * k - 15) = key}
    IN IF hits = {} THEN <<c>>
       ELSE LET points == entry(table, 20, CHOOSE k \in hits : TRUE)
                n == Cardinality({f \in 2..4 : points[f] # 0})
            IN [f \in 1..n |-> char_from_u32(points[f + 1])]

\* whether the code point of c lies in one of the ranges of a table
in_ranges(ranges, c) ==
    LET v == char_to_u32(c)
    IN \E k \in 1..(Len(ranges) \div 10) : entry(ranges, 10, k)[1] <= v /\ v <= entry(ranges, 10, k)[2]

\* the property Case_Ignorable, and the property Cased without it
Case_Ignorable(c) == in_ranges(CASE_IGNORABLE_RANGES, c)
Cased_not_ignorable(c) == in_ranges(CASED_NOT_IGNORABLE_RANGES, c)

\* char::to_uppercase and char::to_lowercase: the characters c is written with in
\* the other case
UpperChar(c) ==
    IF \E i \in 1..26 : LowerCase[i] = c THEN <<UpperCase[CHOOSE i \in 1..26 : LowerCase[i] = c]>>
    ELSE IF c # NUL /\ Len(c) > 3 THEN convert(UPPERCASE_TABLE, c)
    ELSE <<c>>
LowerChar(c) ==
    IF \E i \in 1..26 : UpperCase[i] = c THEN <<LowerCase[CHOOSE i \in 1..26 : UpperCase[i] = c]>>
    ELSE IF c # NUL /\ Len(c) > 3 THEN convert(LOWERCASE_TABLE, c)
    ELSE <<c>>

\* str::to_uppercase: the conversions of the characters of s from index i on, one
\* after the other
RECURSIVE uppercase_from(_, _)
uppercase_from(s, i) == IF i > Len(s) THEN <<>> ELSE UpperChar(s[i]) \o uppercase_from(s, i + 1)
to_uppercase(s) == uppercase_from(s, 1)

\* case_ignorable_then_cased of str::to_lowercase, on the characters before index i
\* read backwards, and on those after it
cased_before(s, i) == \E j \in 1..(i - 1) : Cased_not_ignorable(s[j]) /\ \A k \in (j + 1)..(i - 1) : Case_Ignorable(s[k])
cased_after(s, i) == \E j \in (i + 1)..Len(s) : Cased_not_ignorable(s[j]) /\ \A k \in (i + 1)..(j - 1) : Case_Ignorable(s[k])

\* str::to_lowercase: the conversions of the characters of s from index i on; a
\* capital sigma that ends a word becomes the final sigma
RECURSIVE lowercase_from(_, _)
lowercase_from(s, i) ==
    IF i > Len(s) THEN <<>>
    ELSE (IF s[i] = "U+3A3" THEN <<IF cased_before(s, i) /\ ~cased_after(s, i) THEN "U+3C2" ELSE "U+3C3">>
          ELSE LowerChar(s[i])) \o lowercase_from(s, i + 1)
to_lowercase(s) == lowercase_from(s, 1)

\* the characters of two bytes whose symbol has three digits (U+100..U+7FF)
TwoByteChars == {CharOf(v) : v \in 256..2047}

\* the bytes a character takes in UTF-8, by the digits of its code point: a symbol of
\* up to three letters is a byte or an ASCII character, "U+" with two digits is below
\* U+0800, with four digits below U+10000
len_utf8(c) ==
    IF Len(c) <= 3 THEN 1
    ELSE IF Len(c) = 4 THEN 2
    ELSE IF Len(c) = 5 THEN (IF c \in TwoByteChars THEN 2 ELSE 3)
    ELSE IF Len(c) = 6 THEN 3
    ELSE 4

\* str::len and Vec<u8>::len: the length in bytes
ByteLen(s) ==
    LET wide == {i \in 1..Len(s) : Len(s[i]) > 3}
    IN Len(s) + Cardinality({i \in wide : len_utf8(s[i]) = 2}) + 2 * Cardinality({i \in wide : len_utf8(s[i]) = 3})
           + 3 * Cardinality({i \in wide : len_utf8(s[i]) = 4})

\* core::str: the length of the sequence a first byte announces, 0 for a byte that
\* starts none
utf8_char_width(b) ==
    IF b < 128 THEN 1
    ELSE IF b \in 194..223 THEN 2
    ELSE IF b \in 224..239 THEN 3
    ELSE IF b \in 240..244 THEN 4
    ELSE 0

safe_get(s, i) == IF i <= Len(s) THEN ByteVal(s[i]) ELSE 0
is_continuation(b) == b \in 128..191

\* Utf8Chunks::next at a byte >= 0x80 at index i: the bytes taken and the character
\* they give, U+FFFD when they are no complete valid sequence
lossy_chunk(s, i) ==
    LET b1 == ByteVal(s[i])
        b2 == safe_get(s, i + 1)
        b3 == safe_get(s, i + 2)
        b4 == safe_get(s, i + 3)
        w == utf8_char_width(b1)
        second == CASE w = 2 -> is_continuation(b2)
                    [] w = 3 -> \/ b1 = 224 /\ b2 \in 160..191
                                \/ b1 \in 225..236 /\ b2 \in 128..191
                                \/ b1 = 237 /\ b2 \in 128..159
                                \/ b1 \in 238..239 /\ b2 \in 128..191
                    [] w = 4 -> \/ b1 = 240 /\ b2 \in 144..191
                                \/ b1 \in 241..243 /\ b2 \in 128..191
                                \/ b1 = 244 /\ b2 \in 128..143
                    [] OTHER -> FALSE
    IN IF ~second THEN [len |-> 1, char |-> REPLACEMENT_CHARACTER]
       ELSE IF w = 2 THEN [len |-> 2, char |-> CharOf((b1 - 192) * 64 + (b2 - 128))]
       ELSE IF ~is_continuation(b3) THEN [len |-> 2, char |-> REPLACEMENT_CHARACTER]
       ELSE IF w = 3 THEN [len |-> 3, char |-> CharOf((b1 - 224) * 4096 + (b2 - 128) * 64 + (b3 - 128))]
       ELSE IF ~is_continuation(b4) THEN [len |-> 3, char |-> REPLACEMENT_CHARACTER]
       ELSE [len |-> 4, char |-> CharOf((b1 - 240) * 262144 + (b2 - 128) * 4096 + (b3 - 128) * 64 + (b4 - 128))]

\* String::from_utf8_lossy: the bytes >= 0x80 that form a valid sequence become its
\* character, every maximal invalid part becomes one U+FFFD
RECURSIVE from_utf8_lossy(_)
from_utf8_lossy(bytes) ==
    IF \A i \in 1..Len(bytes) : ~is_high_byte(bytes[i]) THEN bytes
    ELSE LET i == CHOOSE k \in 1..Len(bytes) : is_high_byte(bytes[k]) /\ \A j \in 1..(k - 1) : ~is_high_byte(bytes[j])
             chunk == lossy_chunk(bytes, i)
         IN SubSeq(bytes, 1, i - 1) \o <<chunk.char>> \o from_utf8_lossy(From(bytes, i + chunk.len))

\* whether the non-empty pat occurs in s at index i
MatchAt(s, pat, i) == s[i] = pat[1] /\ i + Len(pat) - 1 <= Len(s) /\ \A j \in 2..Len(pat) : s[i + j - 1] = pat[j]

\* str::find: the 1-based index of the first occurrence of the non-empty pat, 0 when
\* there is none
find(s, pat) ==
    IF \E i \in 1..Len(s) : MatchAt(s, pat, i)
    THEN CHOOSE i \in 1..Len(s) : MatchAt(s, pat, i) /\ \A j \in 1..(i - 1) : ~MatchAt(s, pat, j)
    ELSE 0

\* str::split_once
split_once(s, pat) == LET i == find(s, pat) IN IF i = 0 THEN None ELSE Some(<<SubSeq(s, 1, i - 1), From(s, i + Len(pat))>>)

\* str::trim_start_matches(c): every leading c is removed
trim_start_matches(s, c) == LET n == CHOOSE k \in 0..Len(s) : (k = Len(s) \/ s[k + 1] # c) /\ \A j \in 1..k : s[j] = c IN From(s, n + 1)

\* str::trim: leading and trailing whitespace removed
trim(s) ==
    LET lead == CHOOSE k \in 0..Len(s) : (k = Len(s) \/ ~is_whitespace(s[k + 1])) /\ \A j \in 1..k : is_whitespace(s[j])
        rest == From(s, lead + 1)
        trail == CHOOSE k \in 0..Len(rest) : (k = Len(rest) \/ ~is_whitespace(rest[Len(rest) - k])) /\ \A j \in 1..k : is_whitespace(rest[Len(rest) - j + 1])
    IN SubSeq(rest, 1, Len(rest) - trail)

\* str::split_whitespace: the maximal runs of non-whitespace characters, in order
split_whitespace(s) ==
    LET starts == Ascending({i \in 1..Len(s) : ~is_whitespace(s[i]) /\ (i = 1 \/ is_whitespace(s[i - 1]))})
        ends == Ascending({i \in 1..Len(s) : ~is_whitespace(s[i]) /\ (i = Len(s) \/ is_whitespace(s[i + 1]))})
    IN [k \in 1..Len(starts) |-> SubSeq(s, starts[k], ends[k])]

\* str::lines().first(): the text before the first line feed, without the carriage
\* return that may end it; the whole text when it holds no line feed
first_line(s) ==
    LET nl == find(s, <<"\n">>)
        line == SubSeq(s, 1, nl - 1)
    IN IF Len(s) = 0 THEN None
       ELSE IF nl = 0 THEN Some(s)
       ELSE IF Len(line) > 0 /\ line[Len(line)] = "\r" THEN Some(SubSeq(line, 1, Len(line) - 1))
       ELSE Some(line)

\* HashMap::new and HashMap::insert (the last insertion of a key wins)
EmptyMap == [k \in {} |-> <<>>]
\* insert were the first insertion of a key to win
insert_if_absent(map, k, v) == [x \in (DOMAIN map) \cup {k} |-> IF x \in DOMAIN map THEN map[x] ELSE v]
insert(map, k, v) == [x \in (DOMAIN map) \cup {k} |-> IF x = k THEN v ELSE map[x]]

(***************************************************************************)
(* src/http/request.rs                                                     *)
(***************************************************************************)
Methods == {"Get", "Post", "Put", "Delete", "Head", "Options", "Trace", "Connect", "Patch"}

Method_from_str(s) ==
    LET u == to_uppercase(s) IN
    CASE u = <<"G","E","T">> -> Some("Get")
      [] u = <<"P","O","S","T">> -> Some("Post")
      [] u = <<"P","U","T">> -> Some("Put")
      [] u = <<"D","E","L","E","T","E">> -> Some("Delete")
      [] u = <<"H","E","A","D">> -> Some("Head")
      [] u = <<"O","P","T","I","O","N","S">> -> Some("Options")
      [] u = <<"T","R","A","C","E">> -> Some("Trace")
      [] u = <<"C","O","N","N","E","C","T">> -> Some("Connect")
      [] u = <<"P","A","T","C","H">> -> Some("Patch")
      [] OTHER -> None

\* Version::from_str were it to take HTTP/1.0 for HTTP/1.1
Version_from_str_lenient(s) ==
    CASE s = <<"H","T","T","P","/","1",".","1">> \/ s = <<"H","T","T","P","/","1",".","0">> -> Some("V1_1")
      [] s = <<"H","T","T","P","/","2",".","0">> -> Some("V2_0")
      [] OTHER -> None

Version_from_str(s) ==
    CASE s = <<"H","T","T","P","/","1",".","1">> -> Some("V1_1")
      [] s = <<"H","T","T","P","/","2",".","0">> -> Some("V2_0")
      [] OTHER -> None

Version_fmt(v) == IF v = "V1_1" THEN <<"H","T","T","P","/","1",".","1">> ELSE <<"H","T","T","P","/","2",".","0">>

\* Route::new were it to remove one leading slash only
Route_new_one_slash(path) == [path |-> IF Len(path) > 0 /\ path[1] = "/" THEN Tail(path) ELSE path]

Route_new(path) == [path |-> trim_start_matches(path, "/")]

\* the loop of parse_headers over header_str.split_terminator("\r\n"): it stops at
\* the first empty line and fails on the first line without a colon
RECURSIVE header_lines(_, _)
header_lines(header_str, headers) ==
    LET i == find(header_str, CRLF)
        line == IF i = 0 THEN header_str ELSE SubSeq(header_str, 1, i - 1)
        rest == IF i = 0 THEN <<>> ELSE From(header_str, i + 2)
        kv == split_once(line, <<":">>)
    IN IF Len(header_str) = 0 THEN Some(headers)
       ELSE IF Len(line) = 0 THEN Some(headers)
       ELSE IF ~kv.some THEN None
       ELSE header_lines(rest, insert(headers, trim(kv.val[1]), trim(kv.val[2])))

parse_headers(request) ==
    LET parts == split_once(request, CRLF)
    IN IF ~parts.some THEN None ELSE header_lines(parts.val[2], EmptyMap)

HttpRequest_new(request) ==
    LET line == first_line(request)
        parts == split_whitespace(line.val)
        method == Method_from_str(parts[1])
        version == Version_from_str(parts[3])
        headers == parse_headers(request)
        sep == find(request, CRLFCRLF)
        request_body == IF sep = 0 THEN <<>> ELSE From(request, sep + 4)
    IN IF ~line.some THEN None
       ELSE IF Len(parts) # 3 THEN None
       ELSE IF ~method.some THEN None
       ELSE IF ~version.some THEN None
       ELSE IF ~headers.some THEN None
       ELSE Some([method |-> method.val, route |-> Route_new(parts[2]), version |-> version.val,
                  headers |-> headers.val, request_body |-> request_body])

(***************************************************************************)
(* src/http/response.rs                                                    *)
(***************************************************************************)
Statuses == {"OK", "NotFound", "BadRequest", "Forbidden", "InternalServerError"}

ResponseStatus_code(status) ==
    CASE status = "OK" -> 200
      [] status = "NotFound" -> 404
      [] status = "BadRequest" -> 400
      [] status = "Forbidden" -> 403
      [] status = "InternalServerError" -> 500

ResponseStatus_reason(status) ==
    CASE status = "OK" -> <<"O","K">>
      [] status = "NotFound" -> <<"N","o","t"," ","F","o","u","n","d">>
      [] status = "BadRequest" -> <<"B","a","d"," ","R","e","q","u","e","s","t">>
      [] status = "Forbidden" -> <<"F","o","r","b","i","d","d","e","n">>
      [] status = "InternalServerError" -> <<"I","n","t","e","r","n","a","l"," ","S","e","r","v","e","r"," ","E","r","r","o","r">>

Digits == <<"0","1","2","3","4","5","6","7","8","9">>

\* usize::to_string and u16's Display: the decimal digits, most significant first
RECURSIVE to_decimal(_)
to_decimal(n) == IF n < 10 THEN <<Digits[n + 1]>> ELSE to_decimal(n \div 10) \o <<Digits[(n % 10) + 1]>>

ResponseStatus_fmt(status) == to_decimal(ResponseStatus_code(status)) \o <<" ">> \o ResponseStatus_reason(status)

add_header(response, key, value) == [response EXCEPT !.headers = insert(@, to_lowercase(key), value)]

HttpResponse_new(version, status, current_path) ==
    add_header([version |-> version, status |-> status, headers |-> EmptyMap, response_body |-> <<>>,
                current_path |-> trim_start_matches(current_path, "/")],
               <<"A","c","c","e","p","t","-","R","a","n","g","e","s">>, <<"b","y","t","e","s">>)

\* set_body were it to leave the headers alone
set_body_stale_length(response, body) == [response EXCEPT !.response_body = body]

set_body(response, body) ==
    add_header([response EXCEPT !.response_body = body], <<"C","o","n","t","e","n","t","-","L","e","n","g","t","h">>, to_decimal(ByteLen(body)))

\* the header lines of to_string, for one iteration order of the HashMap
RECURSIVE header_block(_, _)
header_block(headers, order) ==
    IF order = <<>> THEN <<>>
    ELSE order[1] \o <<":"," ">> \o headers[order[1]] \o CRLF \o header_block(headers, Tail(order))

\* the orders in which a HashMap with these keys may be iterated
RECURSIVE Orders(_)
Orders(keys) == IF keys = {} THEN {<<>>} ELSE UNION {{<<k>> \o o : o \in Orders(keys \ {k})} : k \in keys}

\* to_string were it to leave out the blank line
to_string_no_blank_line(response, order) ==
    Version_fmt(response.version) \o <<" ">> \o ResponseStatus_fmt(response.status) \o CRLF
        \o header_block(response.headers, order) \o response.response_body

\* HttpResponse::to_string, for one iteration order of the header map
to_string(response, order) ==
    Version_fmt(response.version) \o <<" ">> \o ResponseStatus_fmt(response.status) \o CRLF
        \o header_block(response.headers, order) \o CRLF \o response.response_body

(***************************************************************************)
(* url_escape::decode, as handle_get_request uses it                       *)
(***************************************************************************)
HexDigits == <<"0","1","2","3","4","5","6","7","8","9","a","b","c","d","e","f">>

\* an ASCII hexadecimal digit, in either case, and its value
IsHex(c) == \E i \in 1..16 : HexDigits[i] = c \/ UpperHex[i] = c
HexVal(c) == (CHOOSE i \in 1..16 : HexDigits[i] = c \/ UpperHex[i] = c) - 1

\* one percent-decoded byte: an ASCII byte is its character
ByteChar(v) == IF v = 0 THEN NUL ELSE IF v < 128 THEN Ascii[v] ELSE ByteSym(v)

\* decode were it to leave the text as it is
decode_nothing(s) == s

\* percent_decode_str: every %XX with two hexadecimal digits becomes the byte XX,
\* everything else is kept
RECURSIVE percent_decode(_)
percent_decode(s) ==
    IF s = <<>> THEN <<>>
    ELSE IF s[1] = "%" /\ Len(s) >= 3 /\ IsHex(s[2]) /\ IsHex(s[3])
         THEN <<ByteChar(16 * HexVal(s[2]) + HexVal(s[3]))>> \o percent_decode(From(s, 4))
    ELSE <<s[1]>> \o percent_decode(Tail(s))

\* url_escape::decode: the percent-decoded bytes, converted to text as a whole
decode(s) == from_utf8_lossy(percent_decode(s))

(***************************************************************************)
(* std::path and std::fs over a fixed filesystem.  A canonical path is the *)
(* sequence of its component names; a Path is its text.                    *)
(***************************************************************************)
Ok(v) == [ok |-> TRUE, val |-> v]
Err(e) == [ok |-> FALSE, err |-> e]

Dir(path, readable) == [path |-> path, kind |-> "dir", readable |-> readable, contents |-> <<>>, target |-> <<>>]
File(path, readable, contents) == [path |-> path, kind |-> "file", readable |-> readable, contents |-> contents, target |-> <<>>]
Symlink(path, target) == [path |-> path, kind |-> "symlink", readable |-> TRUE, contents |-> <<>>, target |-> target]

\* the filesystem the server runs on: the served root /srv, and /etc and /srv2 outside it
FileSystem == {
    Dir(<<>>, TRUE),
    Dir(<<<<"s","r","v">>>>, TRUE),
    File(<<<<"s","r","v">>, <<"a",".","t","x","t">>>>, TRUE, <<"h","i">>),
    File(<<<<"s","r","v">>, <<"s","u","b">>, <<"s","e","c","r","e","t",".","t","x","t">>>>, FALSE, <<"k","e","y">>),
    Dir(<<<<"s","r","v">>, <<"s","u","b">>>>, TRUE),
    File(<<<<"s","r","v">>, <<"s","u","b">>, <<"b",".","h","t","m","l">>>>, TRUE, <<"<","p",">","b","<","/","p",">">>),
    Dir(<<<<"s","r","v">>, <<"s","u","b">>, <<"l","o","c","k","e","d">>>>, FALSE),
    Symlink(<<<<"s","r","v">>, <<"o","u","t">>>>, <<<<"e","t","c">>>>),
    Dir(<<<<"e","t","c">>>>, TRUE),
    File(<<<<"e","t","c">>, <<"p","a","s","s","w","d">>>>, TRUE, <<"r","o","o","t",":","x",":","0">>),
    Dir(<<<<"s","r","v","2">>>>, TRUE),
    File(<<<<"s","r","v","2">>, <<"x">>>>, TRUE, <<"x">>) }

\* the directory the server is started on (main's root_dir)
ROOT_DIR == <<"/","s","r","v">>

Present(canonical) == \E n \in FileSystem : n.path = canonical
Node(canonical) == CHOOSE n \in FileSystem : n.path = canonical

\* the maximal runs of characters other than '/', as [name, last]: last is the index
\* of the run's last character
Segments(p) ==
    LET starts == Ascending({i \in 1..Len(p) : p[i] # "/" /\ (i = 1 \/ p[i - 1] = "/")})
        ends == Ascending({i \in 1..Len(p) : p[i] # "/" /\ (i = Len(p) \/ p[i + 1] = "/")})
    IN [k \in 1..Len(starts) |-> [name |-> SubSeq(p, starts[k], ends[k]), last |-> ends[k]]]

\* Path::components without the root: "." segments are dropped, but for the one a
\* relative path starts with
components(p) ==
    LET segs == Segments(p)
        kept == Ascending({k \in 1..Len(segs) : segs[k].name # <<".">> \/ (k = 1 /\ p[1] # "/")})
    IN [k \in 1..Len(kept) |-> segs[kept[k]]]

\* Path::parent: the path without its last component; None for "/" and ""
parent(p) ==
    LET cs == components(p) IN
    IF Len(cs) = 0 THEN None
    ELSE IF Len(cs) = 1 THEN Some(IF Len(p) > 0 /\ p[1] = "/" THEN <<"/">> ELSE <<>>)
    ELSE Some(SubSeq(p, 1, cs[Len(cs) - 1].last))

\* Path::file_name: the last component, unless it is ".." or "."
file_name(p) ==
    LET cs == components(p) IN
    IF Len(cs) = 0 \/ cs[Len(cs)].name = <<".",".">> \/ cs[Len(cs)].name = <<".">> THEN None ELSE Some(cs[Len(cs)].name)

\* Path::extension: what follows the last dot of the file name, when a dot that is
\* not the name's first character exists
extension(p) ==
    LET name == file_name(p)
        dots == {i \in 1..Len(name.val) : name.val[i] = "."}
        dot == CHOOSE i \in dots : \A j \in dots : j <= i
    IN IF ~name.some \/ dots = {} THEN None
       ELSE IF dot = 1 THEN None
       ELSE Some(From(name.val, dot + 1))

\* Path::join (PathBuf::push): an absolute path replaces the base; otherwise a
\* separator is added unless the base is empty or ends with one
join(base, rel) ==
    IF Len(rel) > 0 /\ rel[1] = "/" THEN rel
    ELSE IF Len(base) = 0 \/ base[Len(base)] = "/" THEN base \o rel
    ELSE base \o <<"/">> \o rel

\* Path::starts_with on canonical paths: whole components are compared
starts_with(path, base) == Len(base) <= Len(path) /\ SubSeq(path, 1, Len(base)) = base

\* the longest name of a directory entry, in bytes (NAME_MAX of Linux)
NAME_MAX == 255

\* the kernel's path walk from the directory cur: ".." is the parent of the directory
\* reached (of itself at "/"), a symbolic link is followed, a name looked up in a
\* file is NotADirectory, a name longer than NAME_MAX is refused as InvalidFilename
\* (ENAMETOOLONG) and a missing name is NotFound
RECURSIVE walk(_, _)
walk(cur, segs) ==
    IF segs = <<>> THEN Ok(cur)
    ELSE IF Node(cur).kind # "dir" THEN Err("NotADirectory")
    ELSE IF segs[1] = <<".">> THEN walk(cur, Tail(segs))
    ELSE IF segs[1] = <<".",".">> THEN walk(SubSeq(cur, 1, Len(cur) - 1), Tail(segs))
    ELSE IF ByteLen(segs[1]) > NAME_MAX THEN Err("InvalidFilename")
    ELSE IF ~Present(Append(cur, segs[1])) THEN Err("NotFound")
    ELSE IF Node(Append(cur, segs[1])).kind = "symlink" THEN walk(Node(Append(cur, segs[1])).target, Tail(segs))
    ELSE walk(Append(cur, segs[1]), Tail(segs))

\* fs::canonicalize (realpath): the canonical path of an existing file or directory.
\* A path holding a NUL byte is InvalidInput; one ending in '/' must be a directory
canonicalize(p) ==
    LET segs == Segments(p)
        found == walk(<<>>, [k \in 1..Len(segs) |-> segs[k].name])
    IN IF \E i \in 1..Len(p) : p[i] = NUL THEN Err("InvalidInput")
       ELSE IF Len(p) = 0 THEN Err("NotFound")
       ELSE IF found.ok /\ p[Len(p)] = "/" /\ Node(found.val).kind # "dir" THEN Err("NotADirectory")
       ELSE found

\* Path::exists, Path::is_dir, Path::is_file: the metadata of the path, links followed
exists(p) == canonicalize(p).ok
is_dir(p) == canonicalize(p).ok /\ Node(canonicalize(p).val).kind = "dir"
is_file(p) == canonicalize(p).ok /\ Node(canonicalize(p).val).kind = "file"

\* fs::read: the file is opened, which its permissions may refuse, then read, which
\* fails on a directory
fs_read(p) ==
    LET c == canonicalize(p) IN
    IF ~c.ok THEN c
    ELSE IF ~Node(c.val).readable THEN Err("PermissionDenied")
    ELSE IF Node(c.val).kind = "dir" THEN Err("IsADirectory")
    ELSE Ok(Node(c.val).contents)

\* fs::read_dir: the names of the directory's entries
fs_read_dir(p) ==
    LET c == canonicalize(p) IN
    IF ~c.ok THEN c
    ELSE IF Node(c.val).kind # "dir" THEN Err("NotADirectory")
    ELSE IF ~Node(c.val).readable THEN Err("PermissionDenied")
    ELSE Ok({n.path[Len(n.path)] : n \in {m \in FileSystem : Len(m.path) = Len(c.val) + 1 /\ SubSeq(m.path, 1, Len(c.val)) = c.val}})

\* io::Error's Display on Linux
io_error_fmt(kind) ==
    CASE kind = "PermissionDenied" -> <<"P","e","r","m","i","s","s","i","o","n"," ","d","e","n","i","e","d"," ","(","o","s"," ","e","r","r","o","r"," ","1","3",")">>
      [] kind = "NotFound" -> <<"N","o"," ","s","u","c","h"," ","f","i","l","e"," ","o","r"," ","d","i","r","e","c","t","o","r","y"," ","(","o","s"," ","e","r","r","o","r"," ","2",")">>
      [] kind = "NotADirectory" -> <<"N","o","t"," ","a"," ","d","i","r","e","c","t","o","r","y"," ","(","o","s"," ","e","r","r","o","r"," ","2","0",")">>
      [] kind = "IsADirectory" -> <<"I","s"," ","a"," ","d","i","r","e","c","t","o","r","y"," ","(","o","s"," ","e","r","r","o","r"," ","2","1",")">>
      [] kind = "InvalidInput" -> <<"f","i","l","e"," ","n","a","m","e"," ","c","o","n","t","a","i","n","e","d"," ","a","n"," ","u","n","e","x","p","e","c","t","e","d"," ","N","U","L"," ","b","y","t","e">>
      [] kind = "InvalidFilename" -> <<"F","i","l","e"," ","n","a","m","e"," ","t","o","o"," ","l","o","n","g"," ","(","o","s"," ","e","r","r","o","r"," ","3","6",")">>

\* infer::get: the MIME type the first bytes give away, if any
infer_get(contents) == IF Len(contents) >= 4 /\ SubSeq(contents, 1, 4) = <<"%","P","D","F">> THEN Some(<<"a","p","p","l","i","c","a","t","i","o","n","/","p","d","f">>) ELSE None

(***************************************************************************)
(* src/main.rs: the handlers.  A handler's result is the response it       *)
(* builds and the set of paths whose content it opened (fs::read,          *)
(* fs::read_dir).                                                          *)
(***************************************************************************)
BUFFER_SIZE == 1024

Handled(response, opened) == [response |-> response, opened |-> opened]

\* Ok(true), Ok(false) or Err(kind)
is_safe_path(root_dir, requested_path) ==
    LET canonicalized_root == canonicalize(root_dir)
        up == parent(requested_path)
        canonicalized_parent == canonicalize(up.val)
        canonicalized_requested == canonicalize(requested_path)
    IN IF ~canonicalized_root.ok THEN canonicalized_root
       ELSE IF ~exists(requested_path)
            THEN IF up.some
                 THEN IF ~canonicalized_parent.ok THEN canonicalized_parent
                      ELSE Ok(starts_with(canonicalized_parent.val, canonicalized_root.val))
                 ELSE Ok(FALSE)
       ELSE IF ~canonicalized_requested.ok THEN canonicalized_requested
       ELSE Ok(starts_with(canonicalized_requested.val, canonicalized_root.val))

LISTING_HEAD == <<"<","!","D","O","C","T","Y","P","E"," ","h","t","m","l",">","\n","<","h","t","m","l"," ","l","a","n","g","=","\"","e","n","\"",">","\n","<","h","e","a","d",">","\n"," "," "," "," ","<","m","e","t","a"," ","c","h","a","r","s","e","t","=","\"","u","t","f","-","8","\"",">","\n"," "," "," "," ","<","m","e","t","a"," ","n","a","m","e","=","\"","v","i","e","w","p","o","r","t","\""," ","c","o","n","t","e","n","t","=","\"","w","i","d","t","h","=","d","e","v","i","c","e","-","w","i","d","t","h",","," ","i","n","i","t","i","a","l","-","s","c","a","l","e","=","1",".","0","\"",">","\n"," "," "," "," ","<","t","i","t","l","e",">","D","i","r","e","c","t","o","r","y"," ","l","i","s","t","i","n","g","<","/","t","i","t","l","e",">","\n"," "," "," "," ","<","s","t","y","l","e",">","\n"," "," "," "," ","/","*"," ","I","n","s","e","r","t"," ","t","h","e"," ","C","S","S"," ","c","o","d","e"," ","h","e","r","e"," ","*","/","\n"," "," "," "," ","b","o","d","y"," ","{","\n"," "," "," "," "," "," "," "," ","f","o","n","t","-","f","a","m","i","l","y",":"," ","A","r","i","a","l",","," ","s","a","n","s","-","s","e","r","i","f",";","\n"," "," "," "," "," "," "," "," ","l","i","n","e","-","h","e","i","g","h","t",":"," ","1",".","6",";","\n"," "," "," "," "," "," "," "," ","c","o","l","o","r",":"," ","#","3","3","3",";","\n"," "," "," "," "," "," "," "," ","m","a","x","-","w","i","d","t","h",":"," ","8","0","0","p","x",";","\n"," "," "," "," "," "," "," "," ","m","a","r","g","i","n",":"," ","0"," ","a","u","t","o",";","\n"," "," "," "," "," "," "," "," ","p","a","d","d","i","n","g",":"," ","2","0","p","x",";","\n"," "," "," "," "," "," "," "," ","b","a","c","k","g","r","o","u","n","d","-","c","o","l","o","r",":"," ","#","f","4","f","4","f","4",";","\n"," "," "," "," ","}","\n"," "," "," "," ","h","1"," ","{","\n"," "," "," "," "," "," "," "," ","c","o","l","o","r",":"," ","#","2","c","3","e","5","0",";","\n"," "," "," "," "," "," "," "," ","b","o","r","d","e","r","-","b","o","t","t","o","m",":"," ","2","p","x"," ","s","o","l","i","d"," ","#","3","4","9","8","d","b",";","\n"," "," "," "," "," "," "," "," ","p","a","d","d","i","n","g","-","b","o","t","t","o","m",":"," ","1","0","p","x",";","\n"," "," "," "," ","}","\n"," "," "," "," ","u","l"," ","{","\n"," "," "," "," "," "," "," "," ","l","i","s","t","-","s","t","y","l","e","-","t","y","p","e",":"," ","n","o","n","e",";","\n"," "," "," "," "," "," "," "," ","p","a","d","d","i","n","g",":"," ","0",";","\n"," "," "," "," ","}","\n"," "," "," "," ","l","i"," ","{","\n"," "," "," "," "," "," "," "," ","m","a","r","g","i","n","-","b","o","t","t","o","m",":"," ","1","0","p","x",";","\n"," "," "," "," "," "," "," "," ","b","a","c","k","g","r","o","u","n","d","-","c","o","l","o","r",":"," ","#","f","f","f",";","\n"," "," "," "," "," "," "," "," ","b","o","r","d","e","r","-","r","a","d","i","u","s",":"," ","4","p","x",";","\n"," "," "," "," "," "," "," "," ","o","v","e","r","f","l","o","w",":"," ","h","i","d","d","e","n",";","\n"," "," "," "," ","}","\n"," "," "," "," ","l","i"," ","a"," ","{","\n"," "," "," "," "," "," "," "," ","d","i","s","p","l","a","y",":"," ","b","l","o","c","k",";","\n"," "," "," "," "," "," "," "," ","p","a","d","d","i","n","g",":"," ","1","0","p","x"," ","1","5","p","x",";","\n"," "," "," "," "," "," "," "," ","c","o","l","o","r",":"," ","#","2","9","8","0","b","9",";","\n"," "," "," "," "," "," "," "," ","t","e","x","t","-","d","e","c","o","r","a","t","i","o","n",":"," ","n","o","n","e",";","\n"," "," "," "," "," "," "," "," ","t","r","a","n","s","i","t","i","o","n",":"," ","b","a","c","k","g","r","o","u","n","d","-","c","o","l","o","r"," ","0",".","3","s"," ","e","a","s","e",";","\n"," "," "," "," ","}","\n"," "," "," "," ","l","i"," ","a",":","h","o","v","e","r"," ","{","\n"," "," "," "," "," "," "," "," ","b","a","c","k","g","r","o","u","n","d","-","c","o","l","o","r",":"," ","#","e","c","f","0","f","1",";","\n"," "," "," "," ","}","\n"," "," "," "," ",".","p","a","r","e","n","t","-","d","i","r"," ","{","\n"," "," "," "," "," "," "," "," ","f","o","n","t","-","w","e","i","g","h","t",":"," ","b","o","l","d",";","\n"," "," "," "," ","}","\n"," "," "," "," ",".","f","i","l","e","-","i","c","o","n",","," ",".","f","o","l","d","e","r","-","i","c","o","n"," ","{","\n"," "," "," "," "," "," "," "," ","m","a","r","g","i","n","-","r","i","g","h","t",":"," ","1","0","p","x",";","\n"," "," "," "," ","}","\n"," "," "," "," ",".","f","i","l","e","-","i","c","o","n",":",":","b","e","f","o","r","e"," ","{","\n"," "," "," "," "," "," "," "," ","c","o","n","t","e","n","t",":"," ","\"","U+1F4C4","\"",";","\n"," "," "," "," ","}","\n"," "," "," "," ",".","f","o","l","d","e","r","-","i","c","o","n",":",":","b","e","f","o","r","e"," ","{","\n"," "," "," "," "," "," "," "," ","c","o","n","t","e","n","t",":"," ","\"","U+1F4C1","\"",";","\n"," "," "," "," ","}","\n"," "," "," "," ","<","/","s","t","y","l","e",">","\n","<","/","h","e","a","d",">","\n","<","b","o","d","y",">">>

\* the <li> lines of the entries, in the order read_dir yields them
RECURSIVE entry_lines(_, _)
entry_lines(dir_path, entries) ==
    IF entries = <<>> THEN <<>>
    ELSE <<"<","l","i",">","<","a"," ","h","r","e","f","=","\"">> \o entries[1] \o <<"\"",">","<","s","p","a","n"," ","c","l","a","s","s","=","\"">>
         \o (IF is_dir(join(dir_path, entries[1])) THEN <<"f","o","l","d","e","r","-","i","c","o","n">> ELSE <<"f","i","l","e","-","i","c","o","n">>)
         \o <<"\"",">","<","/","s","p","a","n",">">> \o entries[1] \o <<"<","/","a",">","<","/","l","i",">">> \o entry_lines(dir_path, Tail(entries))

\* entries: the directory's entries in the order read_dir yields them, used when
\* read_dir succeeds
handle_directory_listing(request, dir_path, entries) ==
    LET listing == fs_read_dir(dir_path)
        up == parent(dir_path)
        status == IF listing.ok THEN "OK"
                  ELSE IF listing.err = "PermissionDenied" THEN "Forbidden"
                  ELSE "InternalServerError"
        content == LISTING_HEAD
                   \o <<"<","h","1",">","D","i","r","e","c","t","o","r","y"," ","l","i","s","t","i","n","g"," ","f","o","r"," ">> \o dir_path \o <<"<","/","h","1",">">>
                   \o <<"<","u","l",">">>
                   \o (IF up.some THEN <<"<","l","i",">","<","a"," ","h","r","e","f","=","\"">> \o up.val \o <<"\""," ","c","l","a","s","s","=","\"","p","a","r","e","n","t","-","d","i","r","\"",">","<","s","p","a","n"," ","c","l","a","s","s","=","\"","f","o","l","d","e","r","-","i","c","o","n","\"",">","<","/","s","p","a","n",">","P","a","r","e","n","t"," ","D","i","r","e","c","t","o","r","y","<","/","a",">","<","/","l","i",">">> ELSE <<>>)
                   \o (IF listing.ok THEN entry_lines(dir_path, entries)
                       ELSE IF listing.err = "PermissionDenied" THEN <<"<","p",">","A","c","c","e","s","s"," ","d","e","n","i","e","d",":"," ">> \o io_error_fmt(listing.err) \o <<"<","/","p",">">>
                       ELSE <<"<","p",">","A","n"," ","e","r","r","o","r"," ","o","c","c","u","r","r","e","d",":"," ">> \o io_error_fmt(listing.err) \o <<"<","/","p",">">>)
                   \o <<"<","/","u","l",">","<","/","b","o","d","y",">","<","/","h","t","m","l",">">>
        response == [HttpResponse_new(request.version, "OK", dir_path) EXCEPT !.status = status]
    IN Handled(set_body(add_header(response, <<"C","o","n","t","e","n","t","-","T","y","p","e">>, <<"t","e","x","t","/","h","t","m","l">>), content), {dir_path})

\* the fallback of handle_file_request: the MIME type of a file extension
mime_of_extension(ext) ==
    CASE ext = Some(<<"h","t","m","l">>) \/ ext = Some(<<"h","t","m">>) -> <<"t","e","x","t","/","h","t","m","l">>
      [] ext = Some(<<"c","s","s">>) -> <<"t","e","x","t","/","c","s","s">>
      [] ext = Some(<<"j","s">>) -> <<"a","p","p","l","i","c","a","t","i","o","n","/","j","a","v","a","s","c","r","i","p","t">>
      [] ext = Some(<<"j","s","o","n">>) -> <<"a","p","p","l","i","c","a","t","i","o","n","/","j","s","o","n">>
      [] ext = Some(<<"t","x","t">>) -> <<"t","e","x","t","/","p","l","a","i","n">>
      [] ext = Some(<<"p","n","g">>) -> <<"i","m","a","g","e","/","p","n","g">>
      [] ext = Some(<<"j","p","g">>) \/ ext = Some(<<"j","p","e","g">>) -> <<"i","m","a","g","e","/","j","p","e","g">>
      [] ext = Some(<<"g","i","f">>) -> <<"i","m","a","g","e","/","g","i","f">>
      [] ext = Some(<<"s","v","g">>) -> <<"i","m","a","g","e","/","s","v","g","+","x","m","l">>
      [] ext = Some(<<"p","d","f">>) -> <<"a","p","p","l","i","c","a","t","i","o","n","/","p","d","f">>
      [] ext = Some(<<"m","p","4">>) -> <<"v","i","d","e","o","/","m","p","4">>
      [] ext = Some(<<"w","e","b","m">>) -> <<"v","i","d","e","o","/","w","e","b","m">>
      [] ext = Some(<<"o","g","g">>) -> <<"v","i","d","e","o","/","o","g","g">>
      [] OTHER -> <<"a","p","p","l","i","c","a","t","i","o","n","/","o","c","t","e","t","-","s","t","r","e","a","m">>

handle_file_request(request, file_path) ==
    LET response == HttpResponse_new(request.version, "OK", file_path)
        contents == fs_read(file_path)
        sniffed == infer_get(contents.val)
        content_type == IF sniffed.some THEN sniffed.val ELSE mime_of_extension(extension(file_path))
    IN Handled(
        IF contents.ok THEN set_body(add_header(response, <<"C","o","n","t","e","n","t","-","T","y","p","e">>, content_type), contents.val)
        ELSE IF contents.err = "PermissionDenied"
             THEN set_body([response EXCEPT !.status = "Forbidden"], <<"A","c","c","e","s","s"," ","d","e","n","i","e","d",":"," ">> \o io_error_fmt(contents.err))
        ELSE IF contents.err = "NotFound"
             THEN set_body([response EXCEPT !.status = "NotFound"], <<"F","i","l","e"," ","n","o","t"," ","f","o","u","n","d">>)
        ELSE set_body([response EXCEPT !.status = "InternalServerError"], <<"A","n"," ","e","r","r","o","r"," ","o","c","c","u","r","r","e","d",":"," ">> \o io_error_fmt(contents.err)),
        {file_path})

POST_BODY_HEAD == <<"<","h","t","m","l",">","<","b","o","d","y",">","<","h","1",">","R","e","c","e","i","v","e","d"," ","P","O","S","T"," ","r","e","q","u","e","s","t","<","/","h","1",">","<","p",">","B","o","d","y",":"," ">>
POST_BODY_TAIL == <<"<","/","p",">","<","/","b","o","d","y",">","<","/","h","t","m","l",">">>

handle_post_request(request) ==
    LET response == HttpResponse_new(request.version, "OK", request.route.path)
        body == POST_BODY_HEAD \o request.request_body \o POST_BODY_TAIL
    IN Handled(set_body(add_header(response, <<"C","o","n","t","e","n","t","-","T","y","p","e">>, <<"t","e","x","t","/","h","t","m","l">>), body), {})

\* the path handle_get_request resolves: the decoded route joined onto the root
requested_path_of(request, root_dir) == join(root_dir, trim_start_matches(decode(request.route.path), "/"))

\* handle_get_request were it not to consult is_safe_path
handle_get_request_unchecked(request, root_dir, entries) ==
    LET requested_path == requested_path_of(request, root_dir) IN
    IF is_dir(requested_path) THEN handle_directory_listing(request, requested_path, entries)
    ELSE IF is_file(requested_path) THEN handle_file_request(request, requested_path)
    ELSE Handled(HttpResponse_new(request.version, "NotFound", <<"N","o","t"," ","F","o","u","n","d">>), {})

handle_get_request(request, root_dir, entries) ==
    LET requested_path == requested_path_of(request, root_dir)
        safe == is_safe_path(root_dir, requested_path)
    IN IF safe.ok /\ safe.val
       THEN IF is_dir(requested_path) THEN handle_directory_listing(request, requested_path, entries)
            ELSE IF is_file(requested_path) THEN handle_file_request(request, requested_path)
            ELSE Handled(HttpResponse_new(request.version, "NotFound", <<"N","o","t"," ","F","o","u","n","d">>), {})
       ELSE IF safe.ok
       THEN Handled(HttpResponse_new(request.version, "Forbidden", <<"F","o","r","b","i","d","d","e","n">>), {})
       ELSE Handled(HttpResponse_new(request.version, "NotFound", <<"N","o","t"," ","F","o","u","n","d">>), {})

\* the orders in which read_dir may yield the entries of the directory a GET request
\* designates (a single empty order when it designates none that can be read)
EntryOrders(request, root_dir) ==
    LET listing == fs_read_dir(requested_path_of(request, root_dir))
    IN IF listing.ok THEN Orders(listing.val) ELSE {<<>>}

\* the match of handle_client on the parsed request: the response and what was opened
respond(parsed, root_dir, entries) ==
    IF parsed.some
    THEN CASE parsed.val.method = "Get" -> handle_get_request(parsed.val, root_dir, entries)
           [] parsed.val.method = "Post" -> handle_post_request(parsed.val)
           [] OTHER -> Handled(HttpResponse_new(parsed.val.version, "BadRequest", parsed.val.route.path), {})
    ELSE Handled(HttpResponse_new("V1_1", "BadRequest", <<"I","n","v","a","l","i","d"," ","R","e","q","u","e","s","t">>), {})

(***************************************************************************)
(* The clients of the server.  What a client sends is recorded with what   *)
(* it was built from: whether it is a well-formed request, its method, the *)
(* path it addresses before percent-encoding (plain) and its body.  The    *)
(* server may receive a first segment of it only (Read).                   *)
(***************************************************************************)
RequestText(method, path, version, header_block_text, body) ==
    method \o <<" ">> \o path \o <<" ">> \o version \o CRLF \o header_block_text \o CRLF \o body

\* a client's percent-encoding of a path: of nothing, of the dots (lower-case
\* hexadecimal digits), or of the dots and of every slash but the first (upper-case)
Encodings == {"literal", "dots", "dots and slashes"}

RECURSIVE Encode(_, _, _)
Encode(p, encoding, i) ==
    IF i > Len(p) THEN <<>>
    ELSE (CASE p[i] = "." /\ encoding = "dots" -> <<"%","2","e">>
            [] p[i] = "." /\ encoding = "dots and slashes" -> <<"%","2","E">>
            [] p[i] = "/" /\ i > 1 /\ encoding = "dots and slashes" -> <<"%","2","F">>
            [] OTHER -> <<p[i]>>) \o Encode(p, encoding, i + 1)

Client(bytes, wellformed, method, plain, body) ==
    [bytes |-> bytes, wellformed |-> wellformed, method |-> method, plain |-> plain, body |-> body]

PlainPaths == {
    <<"/">>, <<"/","a",".","t","x","t">>, <<"/","s","u","b">>, <<"/","s","u","b","/","b",".","h","t","m","l">>, <<"/","s","u","b","/","s","e","c","r","e","t",".","t","x","t">>, <<"/","s","u","b","/","l","o","c","k","e","d">>,
    <<"/","n","o","p","e",".","t","x","t">>, <<"/","s","u","b","/","n","o","p","e",".","t","x","t">>, <<"/","x","/","y">>, <<"/","a",".","t","x","t","/","x">>,
    <<"/",".",".","/","e","t","c","/","p","a","s","s","w","d">>, <<"/",".",".","/","e","t","c">>, <<"/",".",".">>, <<"/",".",".","/","n","o","p","e">>, <<"/",".",".","/","s","r","v","2","/","x">>, <<"/",".",".","/","s","r","v","/","a",".","t","x","t">>,
    <<"/","s","u","b","/",".",".","/",".",".","/","e","t","c","/","p","a","s","s","w","d">>, <<"/","o","u","t","/","p","a","s","s","w","d">>, <<"/","o","u","t">>, <<"/","/","a",".","t","x","t">> }

\* n copies of the character c
Repeat(c, n) == [i \in 1..n |-> c]

\* the paths clients send percent-encoded as well
EncodedPaths == {<<"/","a",".","t","x","t">>, <<"/","s","u","b","/","b",".","h","t","m","l">>, <<"/",".",".","/","e","t","c","/","p","a","s","s","w","d">>, <<"/",".",".">>, <<"/",".",".","/","s","r","v","/","a",".","t","x","t">>, <<"/","s","u","b","/",".",".","/",".",".","/","e","t","c","/","p","a","s","s","w","d">>}

GetClients ==
    {Client(RequestText(<<"G","E","T">>, p, <<"H","T","T","P","/","1",".","1">>, <<>>, <<>>), TRUE, "Get", p, <<>>) : p \in PlainPaths}
    \cup
    {Client(RequestText(<<"G","E","T">>, Encode(p, e, 1), <<"H","T","T","P","/","1",".","1">>, <<>>, <<>>), TRUE, "Get", p, <<>>)
        : p \in EncodedPaths, e \in Encodings}
    \cup
    \* a name longer than NAME_MAX, and in it a name
    {Client(RequestText(<<"G","E","T">>, p, <<"H","T","T","P","/","1",".","1">>, <<>>, <<>>), TRUE, "Get", p, <<>>)
        : p \in {<<"/">> \o Repeat("a", NAME_MAX + 1), <<"/">> \o Repeat("a", NAME_MAX + 1) \o <<"/","x">>}}
    \cup
    { Client(RequestText(<<"G","E","T">>, <<"/","%","2","e","%","2","E","%","2","f","e","t","c","%","2","F","p","a","s","s","w","d">>, <<"H","T","T","P","/","2",".","0">>, <<"H","o","s","t",":"," ","a","\r","\n">>, <<>>), TRUE, "Get", <<"/",".",".","/","e","t","c","/","p","a","s","s","w","d">>, <<>>),
      Client(RequestText(<<"g","e","t">>, <<"/","a",".","t","x","t">>, <<"H","T","T","P","/","2",".","0">>, <<"H","o","s","t",":"," ","a","\r","\n","A","c","c","e","p","t",":"," ","*","/","*","\r","\n">>, <<>>), TRUE, "Get", <<"/","a",".","t","x","t">>, <<>>),
      Client(RequestText(<<"G","E","T">>, <<"/","%","z","z">>, <<"H","T","T","P","/","1",".","1">>, <<>>, <<>>), TRUE, "Get", <<"/","%","z","z">>, <<>>),
      Client(RequestText(<<"G","E","T">>, <<"/","a","%","0","0","b">>, <<"H","T","T","P","/","1",".","1">>, <<>>, <<>>), TRUE, "Get", <<"/", "a", NUL, "b">>, <<>>),
      Client(RequestText(<<"G","E","T">>, <<"/","%","f","f">>, <<"H","T","T","P","/","1",".","1">>, <<>>, <<>>), TRUE, "Get", <<"/", REPLACEMENT_CHARACTER>>, <<>>),
      Client(RequestText(<<"G","E","T">>, <<"/","%","c","3","%","a","9","%","E","2","%","8","2">>, <<"H","T","T","P","/","1",".","1">>, <<>>, <<>>), TRUE, "Get", <<"/", "U+E9", REPLACEMENT_CHARACTER>>, <<>>),
      Client(RequestText(<<"G","E","T">>, <<"/", INVALID_BYTE>>, <<"H","T","T","P","/","1",".","1">>, <<>>, <<>>), TRUE, "Get", <<"/", REPLACEMENT_CHARACTER>>, <<>>),
      Client(<<"G","E","T"," ","/","a",".","t","x","t"," ","H","T","T","P","/","1",".","1","\r","\n","H","o","s","t",":"," ","a">>, TRUE, "Get", <<"/","a",".","t","x","t">>, <<>>),
      \* U+00A0 (bytes C2 A0) between the tokens and around a header value
      Client(<<"G","E","T">> \o <<"xC2", "xA0">> \o <<"/","a",".","t","x","t"," ","H","T","T","P","/","1",".","1","\r","\n","H","o","s","t",":">> \o <<"xC2", "xA0">> \o <<"a","\r","\n","\r","\n">>, TRUE, "Get", <<"/","a",".","t","x","t">>, <<>>) }

PostBodies == {
    <<>>, <<"h","i">>, <<"a","=","1","\r","\n","\r","\n","b","=","2">>, <<"<", "b", ">", INVALID_BYTE, "z">>,
    Repeat("a", BUFFER_SIZE) }

PostClients ==
    {Client(RequestText(<<"P","O","S","T">>, <<"/","f","o","r","m">>, <<"H","T","T","P","/","1",".","1">>, <<>>, b), TRUE, "Post", <<"/","f","o","r","m">>, b) : b \in PostBodies}
    \cup
    {Client(RequestText(<<"P","o","s","t">>, <<"/">>, <<"H","T","T","P","/","2",".","0">>, <<"C","o","n","t","e","n","t","-","T","y","p","e",":"," ","t","e","x","t","/","p","l","a","i","n","\r","\n","H","o","s","t",":","a","\r","\n">>, b), TRUE, "Post", <<"/">>, b)
        : b \in {<<>>, <<"h","i">>}}
    \cup
    \* the method spelt with U+017F (bytes C5 BF), whose upper case is S, and a body
    \* with control characters
    { Client(RequestText(<<"p", "o", "xC5", "xBF", "t">>, <<"/","f","o","r","m">>, <<"H","T","T","P","/","1",".","1">>, <<>>, <<"h","i">>), TRUE, "Post", <<"/","f","o","r","m">>, <<"h","i">>),
      Client(RequestText(<<"P","O","S","T">>, <<"/","f","o","r","m">>, <<"H","T","T","P","/","1",".","1">>, <<>>, <<"a", "x01", "x1B", "x7F">>), TRUE, "Post", <<"/","f","o","r","m">>, <<"a", "x01", "x1B", "x7F">>) }

OtherMethodClients ==
    {Client(RequestText(m[1], <<"/","a",".","t","x","t">>, <<"H","T","T","P","/","1",".","1">>, <<>>, <<"x">>), TRUE, m[2], <<"/","a",".","t","x","t">>, <<"x">>)
        : m \in { <<<<"P","U","T">>, "Put">>, <<<<"D","E","L","E","T","E">>, "Delete">>, <<<<"H","E","A","D">>, "Head">>, <<<<"O","P","T","I","O","N","S">>, "Options">>,
                  <<<<"T","R","A","C","E">>, "Trace">>, <<<<"C","O","N","N","E","C","T">>, "Connect">>, <<<<"P","A","T","C","H">>, "Patch">>, <<<<"p","a","t","c","h">>, "Patch">>,
                  <<<<"o", "p", "t", "xC4", "xB1", "o", "n", "s">>, "Options">> }}

\* what is no request, with the path it addresses if it has one: no three tokens on
\* the first line, an unknown method, another version, a header line without a colon,
\* no CRLF at all, nothing, bytes that are no text
MalformedTexts == {
    <<<<>>, <<>>>>,
    <<<<"F","O","O","B","A","R"," ","/"," ","H","T","T","P","/","1",".","1","\r","\n","\r","\n">>, <<"/">>>>,
    <<<<"G","E","T"," ","/","a",".","t","x","t","\r","\n","\r","\n">>, <<"/","a",".","t","x","t">>>>,
    <<<<"G","E","T"," ","/","a",".","t","x","t"," ","H","T","T","P","/","1",".","1"," ","e","x","t","r","a","\r","\n","\r","\n">>, <<"/","a",".","t","x","t">>>>,
    <<<<"\r","\n","\r","\n">>, <<>>>>,
    <<<<"G","E","T"," ","/","a",".","t","x","t"," ","H","T","T","P","/","1",".","0","\r","\n","\r","\n">>, <<"/","a",".","t","x","t">>>>,
    <<<<"G","E","T"," ","/","a",".","t","x","t"," ","h","t","t","p","/","1",".","1","\r","\n","\r","\n">>, <<"/","a",".","t","x","t">>>>,
    <<<<"P","O","S","T"," ","/","f","o","r","m"," ","H","T","T","P","/","1",".","1","\r","\n","n","o"," ","c","o","l","o","n"," ","h","e","r","e","\r","\n","\r","\n","h","i">>, <<"/","f","o","r","m">>>>,
    <<<<"G","E","T"," ","/","a",".","t","x","t"," ","H","T","T","P","/","1",".","1","\r","\n","H","o","s","t",":"," ","a","\r","\n","b","r","o","k","e","n","\r","\n","\r","\n">>, <<"/","a",".","t","x","t">>>>,
    <<<<"G","E","T"," ","/",".",".","/","e","t","c","/","p","a","s","s","w","d"," ","H","T","T","P","/","1",".","1","\r","\n","H","o","s","t",":"," ","a","\r","\n">>, <<"/",".",".","/","e","t","c","/","p","a","s","s","w","d">>>>,
    <<<<"G","E","T"," ","/","a",".","t","x","t"," ","H","T","T","P","/","1",".","1","\n","\n">>, <<"/","a",".","t","x","t">>>>,
    <<<<"P","O","S","T"," ","/","f","o","r","m"," ","H","T","T","P","/","1",".","1","\r","\n","H","o","s","t",":"," ","a","\r","\n">>, <<"/","f","o","r","m">>>>,
    <<<<INVALID_BYTE, INVALID_BYTE, "\r", "\n">>, <<>>>> }

MalformedClients == {Client(t[1], FALSE, "none", t[2], <<>>) : t \in MalformedTexts}

Clients == GetClients \cup PostClients \cup OtherMethodClients \cup MalformedClients

(***************************************************************************)
(* The state                                                               *)
(***************************************************************************)
VARIABLES
    \* serve and handle_client (src/main.rs)
    serve_pc,     \* where serve is: "bind", "accept", "handle", "returned"
    serve_result, \* what serve returned: "none", "bind error", "accept error"
    arrived,      \* the connections the listener has yielded so far
    served,       \* the connections handle_client has returned from, in order
    logged,       \* the "Error handling client" lines serve has printed
    client_pc,    \* where handle_client is: "idle", "read", "process", "write", "flush", "return"
    client,       \* the client of the connection being handled
    buffer,       \* handle_client's buffer
    received,     \* the number of bytes stream.read returned, which handle_client drops
    request,      \* the value of HttpRequest::new(&request_str)
    reply,        \* the response built, with the paths opened to build it
    wire,         \* the byte strings write_all has put on the stream
    flushed,      \* whether flush has returned Ok
    io_error,     \* the call of handle_client that failed: "none", "read", "write", "flush"
    \* HttpRequest::new alone (src/http/request.rs)
    input,        \* what the request text is built from
    parse_pc,     \* "idle", then "ready" before and "done" after the call
    parsed,       \* the value of HttpRequest::new on the request text
    \* one HttpResponse under construction (src/http/response.rs)
    response,     \* the HttpResponse
    calls,        \* the add_header and set_body calls made on it
    body_set,     \* whether set_body has been called
    length_given  \* whether add_header has named Content-Length since the last set_body

vars == <<serve_pc, serve_result, arrived, served, logged, client_pc, client, buffer, received, request, reply, wire,
          flushed, io_error, input, parse_pc, parsed, response, calls, body_set, length_given>>

server_vars == <<serve_pc, serve_result, arrived, served, logged, client_pc, client, buffer, received, request, reply, wire, flushed, io_error>>
parser_vars == <<input, parse_pc, parsed>>
builder_vars == <<response, calls, body_set, length_given>>

NoClient == Client(<<>>, FALSE, "none", <<>>, <<>>)
NoReply == Handled(None, {})
NoInput == [method |-> <<>>, path |-> <<>>, version |-> <<>>, lines |-> <<>>, body |-> <<>>]

ServerIdle ==
    /\ serve_pc = "bind" /\ serve_result = "none" /\ arrived = 0 /\ served = <<>> /\ logged = 0
    /\ client_pc = "idle" /\ client = NoClient /\ buffer = <<>> /\ received = 0 /\ request = None /\ reply = NoReply
    /\ wire = <<>> /\ flushed = FALSE /\ io_error = "none"

ParserIdle == input = NoInput /\ parse_pc = "idle" /\ parsed = None

BuilderIdle == response = None /\ calls = 0 /\ body_set = FALSE /\ length_given = FALSE

(***************************************************************************)
(* serve and handle_client                                                 *)
(***************************************************************************)
\* TcpListener::bind(socket)?
Bind ==
    /\ serve_pc = "bind"
    /\ \/ serve_pc' = "accept" /\ UNCHANGED serve_result
       \/ serve_pc' = "returned" /\ serve_result' = "bind error"
    /\ UNCHANGED <<arrived, served, logged, client_pc, client, buffer, received, request, reply, wire, flushed, io_error>>
    /\ UNCHANGED <<parser_vars, builder_vars>>

\* listener.incoming() yields a connection and handle_client is called on it
Accept ==
    /\ serve_pc = "accept" /\ arrived < MaxConns
    /\ arrived' = arrived + 1
    /\ serve_pc' = "handle"
    /\ client_pc' = "read"
    /\ \E c \in Clients : client' = c
    /\ buffer' = Repeat(NUL, BUFFER_SIZE) /\ received' = 0
    /\ request' = None /\ reply' = NoReply /\ wire' = <<>> /\ flushed' = FALSE /\ io_error' = "none"
    /\ UNCHANGED <<serve_result, served, logged>>
    /\ UNCHANGED <<parser_vars, builder_vars>>

\* listener.incoming() yields an error: `let stream = stream?` returns it from serve
AcceptError ==
    /\ serve_pc = "accept" /\ arrived < MaxConns
    /\ arrived' = arrived + 1
    /\ serve_pc' = "returned" /\ serve_result' = "accept error"
    /\ UNCHANGED <<served, logged, client_pc, client, buffer, received, request, reply, wire, flushed, io_error>>
    /\ UNCHANGED <<parser_vars, builder_vars>>

\* the buffer after stream.read(&mut buffer) has received bytes: at most BUFFER_SIZE
\* of them, the rest of the buffer still zero
filled(bytes) == [i \in 1..BUFFER_SIZE |-> IF i <= Len(bytes) THEN bytes[i] ELSE NUL]

\* the numbers of bytes one stream.read may return of what the client sends:
\* whatever has arrived, any first segment of it that is not empty, and at most the
\* size of the buffer; nothing when the client sends nothing
read_counts(bytes) ==
    LET whole == IF Len(bytes) <= BUFFER_SIZE THEN Len(bytes) ELSE BUFFER_SIZE
    IN IF whole = 0 THEN {0} ELSE 1..whole

\* stream.read(&mut buffer)?: one read, whose count is dropped
Read ==
    /\ client_pc = "read"
    /\ \/ /\ \E n \in read_counts(client.bytes) :
                /\ buffer' = filled(SubSeq(client.bytes, 1, n))
                /\ received' = n
          /\ client_pc' = "process" /\ UNCHANGED io_error
       \/ io_error' = "read" /\ client_pc' = "return" /\ UNCHANGED <<buffer, received>>
    /\ UNCHANGED <<serve_pc, serve_result, arrived, served, logged, client, request, reply, wire, flushed>>
    /\ UNCHANGED <<parser_vars, builder_vars>>

\* from String::from_utf8_lossy(&buffer) to the response of the match on the request
Process ==
    /\ client_pc = "process"
    /\ \E got \in {HttpRequest_new(from_utf8_lossy(buffer))} :
        /\ request' = got
        /\ \E entries \in (IF got.some /\ got.val.method = "Get" THEN EntryOrders(got.val, ROOT_DIR) ELSE {<<>>}) :
              reply' = respond(got, ROOT_DIR, entries)
    /\ client_pc' = "write"
    /\ UNCHANGED <<serve_pc, serve_result, arrived, served, logged, client, buffer, received, wire, flushed, io_error>>
    /\ UNCHANGED <<parser_vars, builder_vars>>

\* stream.write_all(&response.to_string())?
Write ==
    /\ client_pc = "write"
    /\ \/ /\ \E order \in Orders(DOMAIN reply.response.headers) : wire' = Append(wire, to_string(reply.response, order))
          /\ client_pc' = "flush" /\ UNCHANGED io_error
       \/ io_error' = "write" /\ client_pc' = "return" /\ UNCHANGED wire
    /\ UNCHANGED <<serve_pc, serve_result, arrived, served, logged, client, buffer, received, request, reply, flushed>>
    /\ UNCHANGED <<parser_vars, builder_vars>>

\* stream.flush()?; Ok(())
Flush ==
    /\ client_pc = "flush"
    /\ \/ flushed' = TRUE /\ UNCHANGED io_error
       \/ io_error' = "flush" /\ UNCHANGED flushed
    /\ client_pc' = "return"
    /\ UNCHANGED <<serve_pc, serve_result, arrived, served, logged, client, buffer, received, request, reply, wire>>
    /\ UNCHANGED <<parser_vars, builder_vars>>

\* handle_client has returned: serve prints its error, if any, and goes on to the
\* next connection
Return ==
    /\ serve_pc = "handle" /\ client_pc = "return"
    /\ logged' = IF io_error # "none" THEN logged + 1 ELSE logged
    /\ served' = Append(served, arrived)
    /\ serve_pc' = "accept"
    /\ client_pc' = "idle"
    /\ client' = NoClient /\ buffer' = <<>> /\ received' = 0 /\ request' = None /\ reply' = NoReply
    /\ wire' = <<>> /\ flushed' = FALSE /\ io_error' = "none"
    /\ UNCHANGED <<serve_result, arrived>>
    /\ UNCHANGED <<parser_vars, builder_vars>>

Init == ServerIdle /\ ParserIdle /\ BuilderIdle

Next == Bind \/ Accept \/ AcceptError \/ Read \/ Process \/ Write \/ Flush \/ Return

Spec == Init /\ [][Next]_vars

(***************************************************************************)
(* HttpRequest::new on the text of well-formed requests                    *)
(***************************************************************************)
\* header lines of one request text
MaxHeaders == 2

\* the method tokens with the Method each names
MethodTokens == {
    <<<<"G","E","T">>, "Get">>, <<<<"P","O","S","T">>, "Post">>, <<<<"P","U","T">>, "Put">>, <<<<"D","E","L","E","T","E">>, "Delete">>, <<<<"H","E","A","D">>, "Head">>,
    <<<<"O","P","T","I","O","N","S">>, "Options">>, <<<<"T","R","A","C","E">>, "Trace">>, <<<<"C","O","N","N","E","C","T">>, "Connect">>, <<<<"P","A","T","C","H">>, "Patch">> }

VersionTokens == {<<<<"H","T","T","P","/","1",".","1">>, "V1_1">>, <<<<"H","T","T","P","/","2",".","0">>, "V2_0">>}

PathTokens == {<<"/">>, <<"/","a">>, <<"/","a","/","b",".","t","x","t">>, <<"/","/","a">>, <<"/","/","/">>, <<"/","a","/","/","b","/">>}

\* header lines as [name, value]: a name sent twice, values with whitespace (U+0020,
\* U+00A0, U+2003) around them and with a colon in them, a name with a colon in it
HeaderLines == {
    [name |-> <<"H","o","s","t">>, value |-> <<"x">>],
    [name |-> <<"H","o","s","t">>, value |-> <<" "," ","y"," ","z"," ">>],
    [name |-> <<"X","-","A">>, value |-> <<"v",":","1">>],
    [name |-> <<"a",":","b">>, value |-> <<"c">>],
    [name |-> <<"K">>, value |-> <<"U+A0", "v", " ", "w", "U+2003">>] }

RECURSIVE SeqsUpTo(_, _)
SeqsUpTo(S, n) == IF n = 0 THEN {<<>>} ELSE SeqsUpTo(S, n - 1) \cup {Append(q, x) : q \in SeqsUpTo(S, n - 1), x \in S}

BodyTexts == {<<>>, <<"h","i">>, <<"k",":"," ","v","\r","\n","\r","\n","m","o","r","e">>}

RECURSIVE HeaderBlockText(_)
HeaderBlockText(lines) ==
    IF lines = <<>> THEN <<>>
    ELSE lines[1].name \o <<":"," ">> \o lines[1].value \o CRLF \o HeaderBlockText(Tail(lines))

Input(method, path, version, lines, body) ==
    [method |-> method, path |-> path, version |-> version, lines |-> lines, body |-> body]

\* every first line without headers, and every header block and body on two first lines
Inputs ==
    {Input(m, p, v, <<>>, <<"h","i">>) : m \in MethodTokens, p \in PathTokens, v \in VersionTokens}
    \cup
    {Input(m, <<"/","a">>, <<<<"H","T","T","P","/","1",".","1">>, "V1_1">>, l, b)
        : m \in {<<<<"G","E","T">>, "Get">>, <<<<"P","O","S","T">>, "Post">>}, l \in SeqsUpTo(HeaderLines, MaxHeaders), b \in BodyTexts}

InputText(i) == RequestText(i.method[1], i.path, i.version[1], HeaderBlockText(i.lines), i.body)

InitParse == ServerIdle /\ BuilderIdle /\ input \in Inputs /\ parse_pc = "ready" /\ parsed = None

Parse ==
    /\ parse_pc = "ready"
    /\ parsed' = HttpRequest_new(InputText(input))
    /\ parse_pc' = "done"
    /\ UNCHANGED <<input, server_vars, builder_vars>>

NextParse == Parse

SpecParse == InitParse /\ [][NextParse]_vars

(***************************************************************************)
(* add_header and set_body on one HttpResponse                             *)
(***************************************************************************)
ContentLengthSpellings == {<<"C","o","n","t","e","n","t","-","L","e","n","g","t","h">>, <<"c","o","n","t","e","n","t","-","l","e","n","g","t","h">>, <<"C","O","N","T","E","N","T","-","L","E","N","G","T","H">>}

\* among the names: one with U+212A, whose lower case is k, one with U+0130, whose
\* lower case is two characters, and one ending in a capital sigma
HeaderNames ==
    ContentLengthSpellings
    \cup {<<"C","o","n","t","e","n","t","-","T","y","p","e">>, <<"X","-","T","r","a","c","e">>, <<"A","C","C","E","P","T","-","R","A","N","G","E","S">>, <<"X", "-", "U+212A", "U+130">>, <<"U+391", "U+3A3">>}

HeaderValues == {<<"t","e","x","t","/","h","t","m","l">>, <<"0">>, <<"1","2">>}

Bodies == {<<>>, <<"h","i">>, <<"h","e","l","l","o",","," ","w","o","r","l","d">>, <<"a", REPLACEMENT_CHARACTER>>}

InitBuild ==
    /\ ServerIdle /\ ParserIdle
    /\ \E v \in {"V1_1", "V2_0"}, s \in {"OK", "NotFound"} : response = HttpResponse_new(v, s, <<"/","s","r","v","/","a",".","t","x","t">>)
    /\ calls = 0 /\ body_set = FALSE /\ length_given = FALSE

AddHeader ==
    /\ calls < MaxCalls
    /\ \E k \in HeaderNames, v \in HeaderValues :
        /\ response' = add_header(response, k, v)
        /\ length_given' = (length_given \/ k \in ContentLengthSpellings)
    /\ calls' = calls + 1
    /\ UNCHANGED <<body_set, server_vars, parser_vars>>

SetBody ==
    /\ calls < MaxCalls
    /\ \E b \in Bodies : response' = set_body(response, b)
    /\ body_set' = TRUE
    /\ length_given' = FALSE
    /\ calls' = calls + 1
    /\ UNCHANGED <<server_vars, parser_vars>>

NextBuild == AddHeader \/ SetBody

SpecBuild == InitBuild /\ [][NextBuild]_vars

(***************************************************************************)
(* The claims.  What a claim expects of a response is read off the bytes   *)
(* written where the claim is about them, and stated from the bytes the    *)
(* server received (the buffer), from what the client sent (client) or     *)
(* from what the request text was built from (input), not from the         *)
(* parser's own result.                                                    *)
(***************************************************************************)
\* handle_client has built a response for the connection
Replied == client_pc \in {"write", "flush"} \/ (client_pc = "return" /\ io_error # "read")

\* the path the client's request designates under the root
Target == join(ROOT_DIR, trim_start_matches(client.plain, "/"))

\* whether p resolves to a file or directory in or under the canonical root
Inside(p) == canonicalize(p).ok /\ starts_with(canonicalize(p).val, canonicalize(ROOT_DIR).val)

WellformedGet == Replied /\ client.wellformed /\ client.method = "Get"

\* the text handle_client has received, and the text the client sends
Received == from_utf8_lossy(buffer)
Sent == from_utf8_lossy(client.bytes)

\* (Elements(S) is the set S, with its members determined once)
\* the tokens of the first line of a text: the line ends before the first line feed,
\* a token is a longest run of characters that are no white space
Elements(S) == DOMAIN [x \in S |-> TRUE]
FirstLine(t) == LET feeds == Elements({i \in 1..Len(t) : t[i] = "\n"}) IN IF feeds = {} THEN t ELSE SubSeq(t, 1, Least(feeds) - 1)
TokenStarts(line) == Elements({i \in 1..Len(line) : ~is_whitespace(line[i]) /\ (i = 1 \/ is_whitespace(line[i - 1]))})
TokenEnds(line) == Elements({i \in 1..Len(line) : ~is_whitespace(line[i]) /\ (i = Len(line) \/ is_whitespace(line[i + 1]))})
Tokens(t) ==
    LET line == FirstLine(t)
        starts == Ascending(TokenStarts(line))
        ends == Ascending(TokenEnds(line))
    IN [k \in 1..Len(starts) |-> SubSeq(line, starts[k], ends[k])]

\* the lines after the first CRLF of a text, each ending before the next CRLF or with
\* the text, up to the first empty one, all hold a colon; there is a CRLF
CrlfAt(t) == Elements({i \in 1..(Len(t) - 1) : t[i] = "\r" /\ t[i + 1] = "\n"})
HeaderLinesHaveColons(t) ==
    LET marks == CrlfAt(t)
        next == [m \in marks |-> IF \E j \in marks : j > m THEN Least({j \in marks : j > m}) ELSE Len(t) + 1]
        blank == Elements({m \in marks : next[m] = m + 2})
    IN /\ marks # {}
       /\ \A m \in marks : (\A b \in blank : m < b) => \E i \in (m + 2)..(next[m] - 1) : t[i] = ":"

\* a text is a request: three tokens on the first line, the first one of the nine
\* methods in any letter case, the third one of the two versions, and header lines
\* with a colon each
MethodNames == {<<"G","E","T">>, <<"P","O","S","T">>, <<"P","U","T">>, <<"D","E","L","E","T","E">>, <<"H","E","A","D">>, <<"O","P","T","I","O","N","S">>, <<"T","R","A","C","E">>, <<"C","O","N","N","E","C","T">>, <<"P","A","T","C","H">>}
IsRequest(t) ==
    LET tokens == Tokens(t) IN
    /\ HeaderLinesHaveColons(t)
    /\ Len(tokens) = 3
    /\ to_uppercase(tokens[1]) \in MethodNames
    /\ tokens[3] \in {<<"H","T","T","P","/","1",".","1">>, <<"H","T","T","P","/","2",".","0">>}

\* the method of a request, in capital letters
MethodOf(t) == to_uppercase(Tokens(t)[1])

\* the server has received a GET request, with the path the client addresses (the
\* read may have been short of what the client sends)
ReceivedGet ==
    /\ Replied
    /\ LET text == Received
           tokens == Tokens(text)
       IN /\ IsRequest(text)
          /\ to_uppercase(tokens[1]) = <<"G","E","T">>
          /\ tokens[2] = Tokens(Sent)[2]

\* the number a decimal numeral denotes; a numeral has no superfluous leading zero
DigitValue(c) == (CHOOSE i \in 1..10 : Digits[i] = c) - 1
IsNumeral(d) == Len(d) >= 1 /\ (\A i \in 1..Len(d) : \E j \in 1..10 : Digits[j] = d[i]) /\ (Len(d) = 1 \/ d[1] # "0")
RECURSIVE DecimalValue(_)
DecimalValue(d) == IF Len(d) = 0 THEN 0 ELSE 10 * DecimalValue(SubSeq(d, 1, Len(d) - 1)) + DigitValue(d[Len(d)])

\* the parts of a response on the wire
StatusLineOf(w) == SubSeq(w, 1, find(w, CRLF) - 1)
HeadOf(w) == SubSeq(w, 1, find(w, CRLFCRLF) + 1)
BodyOf(w) == From(w, find(w, CRLFCRLF) + 4)
IsBadRequest(w) == StatusLineOf(w) \in {<<"H","T","T","P","/","1",".","1"," ","4","0","0"," ","B","a","d"," ","R","e","q","u","e","s","t">>, <<"H","T","T","P","/","2",".","0"," ","4","0","0"," ","B","a","d"," ","R","e","q","u","e","s","t">>}

-----------------------------------------------------------------------------
\* C1: a GET request received whose path, percent-decoded and joined onto the root,
\* designates an existing file or directory whose canonical path is not under the
\* canonical root is classified Ok(false) by is_safe_path and answered 403 Forbidden
\* without the target being opened, whether the client sent the dots and slashes of
\* the path literally or percent-encoded, and whether or not the read was short of
\* what the client sends.
C1_TraversalIsForbidden ==
    (exists(Target) /\ ~Inside(Target) /\ ReceivedGet) =>
        /\ is_safe_path(ROOT_DIR, requested_path_of(request.val, ROOT_DIR)) = Ok(FALSE)
        /\ reply.response.status = "Forbidden"
        /\ reply.opened = {}

C1_Witness ==
    /\ ReceivedGet /\ client.plain = <<"/",".",".","/","e","t","c","/","p","a","s","s","w","d">>
    /\ \E i \in 1..Len(client.bytes) : client.bytes[i] = "%"
    /\ received < Len(client.bytes)
    /\ reply.response.status = "Forbidden"

-----------------------------------------------------------------------------
\* C2: a GET request for a path that does not exist under the root, its parent
\* directory existing inside the root, is answered 404 with the body "File not found".
C2_MissingFileBody ==
    (WellformedGet /\ ~exists(Target) /\ parent(Target).some /\ Inside(parent(Target).val)) =>
        /\ reply.response.status = "NotFound"
        /\ reply.response.response_body = <<"F","i","l","e"," ","n","o","t"," ","f","o","u","n","d">>

-----------------------------------------------------------------------------
\* C3: a POST request that parses and fits in the read buffer is answered 200 with
\* content-type text/html and a body that is the fixed fragment, exactly the bytes the
\* client sent after the first CRLF CRLF, and the closing fragment, content-length
\* being that body's length in bytes.
C3_PostEchoesTheBodySent ==
    (Replied /\ client.wellformed /\ client.method = "Post" /\ Len(client.bytes) <= BUFFER_SIZE) =>
        /\ reply.response.status = "OK"
        /\ reply.response.headers[<<"c","o","n","t","e","n","t","-","t","y","p","e">>] = <<"t","e","x","t","/","h","t","m","l">>
        /\ reply.response.response_body = POST_BODY_HEAD \o client.body \o POST_BODY_TAIL
        /\ DecimalValue(reply.response.headers[<<"c","o","n","t","e","n","t","-","l","e","n","g","t","h">>]) = ByteLen(reply.response.response_body)

-----------------------------------------------------------------------------
\* C4 as stated: once set_body has been called, after any add_header and set_body
\* calls the content-length header is the decimal byte length of the body and every
\* header key is lower-case.
HeaderKeysLowercase ==
    \A k \in DOMAIN response.headers : \A i \in 1..Len(k) :
        /\ \A j \in 1..26 : k[i] # UpperCase[j]
        /\ LowerChar(k[i]) = <<k[i]>>

LengthHeaderMatchesBody ==
    /\ <<"c","o","n","t","e","n","t","-","l","e","n","g","t","h">> \in DOMAIN response.headers
    /\ IsNumeral(response.headers[<<"c","o","n","t","e","n","t","-","l","e","n","g","t","h">>])
    /\ DecimalValue(response.headers[<<"c","o","n","t","e","n","t","-","l","e","n","g","t","h">>]) = ByteLen(response.response_body)

C4_LengthAlwaysMatches == body_set => (LengthHeaderMatchesBody /\ HeaderKeysLowercase)

\* C4, amended: every header key is lower-case after any add_header and set_body
\* calls, and the content-length header is the decimal byte length of the body
\* whenever set_body has been called and no add_header call since the last set_body
\* named Content-Length (in any letter case).
C4_LengthMatchesUnlessOverwritten ==
    /\ HeaderKeysLowercase
    /\ (body_set /\ ~length_given) => LengthHeaderMatchesBody

C4_Witness ==
    /\ body_set /\ ~length_given /\ calls = MaxCalls
    /\ response.response_body = <<"a", REPLACEMENT_CHARACTER>>
    /\ response.headers[<<"c","o","n","t","e","n","t","-","l","e","n","g","t","h">>] = <<"4">>
    /\ <<"x","-","t","r","a","c","e">> \in DOMAIN response.headers

-----------------------------------------------------------------------------
\* the header map a block of header lines denotes when every name is held with its
\* trimmed value and the last occurrence of a name wins
NamedValues(lines) ==
    [n \in {lines[i].name : i \in 1..Len(lines)} |->
        trim(lines[CHOOSE i \in 1..Len(lines) : lines[i].name = n /\ \A j \in (i + 1)..Len(lines) : lines[j].name # n].value)]

\* the text of a header line before and after its first colon, trimmed
LineText(l) == l.name \o <<":"," ">> \o l.value
KeyOf(l) == trim(SubSeq(LineText(l), 1, find(LineText(l), <<":">>) - 1))
ValueOf(l) == trim(From(LineText(l), find(LineText(l), <<":">>) + 1))

\* the header map a block of header lines denotes when a line is split at its first
\* colon and the last occurrence of a key wins
SplitValues(lines) ==
    [k \in {KeyOf(lines[i]) : i \in 1..Len(lines)} |->
        ValueOf(lines[CHOOSE i \in 1..Len(lines) : KeyOf(lines[i]) = k /\ \A j \in (i + 1)..Len(lines) : KeyOf(lines[j]) # k])]

\* p without its leading slashes
RECURSIVE WithoutLeadingSlashes(_)
WithoutLeadingSlashes(p) == IF Len(p) > 0 /\ p[1] = "/" THEN WithoutLeadingSlashes(Tail(p)) ELSE p

\* C5 as stated: on a request text built from a method of the nine, a path, a version
\* of the two, header lines and a body, HttpRequest::new succeeds and returns that
\* method, that version, the path without its leading slash, every header name with
\* its trimmed value (the last occurrence winning) and the body.
C5_ParserRecoversRequest ==
    parse_pc = "done" =>
        /\ parsed.some
        /\ parsed.val.method = input.method[2]
        /\ parsed.val.version = input.version[2]
        /\ parsed.val.route.path = Tail(input.path)
        /\ parsed.val.headers = NamedValues(input.lines)
        /\ parsed.val.request_body = input.body

\* C5, amended: on such a request text, the path a token without whitespace that
\* starts with a slash, HttpRequest::new succeeds and returns that method, that
\* version, the path without any of its leading slashes, a header map holding for
\* every header line the trimmed text before the line's first colon with the trimmed
\* text after it (the last occurrence of a key winning), so that a name free of
\* colons is held with its trimmed value, and the body.
C5_ParserRecoversRequestAmended ==
    parse_pc = "done" =>
        /\ parsed.some
        /\ parsed.val.method = input.method[2]
        /\ parsed.val.version = input.version[2]
        /\ parsed.val.route.path = WithoutLeadingSlashes(input.path)
        /\ parsed.val.headers = SplitValues(input.lines)
        /\ parsed.val.request_body = input.body

C5_Witness ==
    /\ parse_pc = "done" /\ parsed.some
    /\ input.method[2] = "Post"
    /\ input.lines = <<[name |-> <<"H","o","s","t">>, value |-> <<"x">>], [name |-> <<"H","o","s","t">>, value |-> <<" "," ","y"," ","z"," ">>]>>
    /\ parsed.val.headers = [k \in {<<"H","o","s","t">>} |-> <<"y"," ","z">>]
    /\ input.body = <<"k",":"," ","v","\r","\n","\r","\n","m","o","r","e">>

-----------------------------------------------------------------------------
\* C6: the response written has status 400 Bad Request exactly when the buffer
\* received is no request (no three tokens on the first line, an unknown method,
\* another version, a header line without a colon) or is one with a method other than
\* GET and POST; such a response has an empty body and no content-length header.  When
\* the read has returned all the client sends and it fits the buffer, that is exactly
\* when what the client sent is no well-formed request or is one of another method.
C6_BadRequestExactly ==
    Len(wire) = 1 =>
        /\ LET text == Received
           IN IsBadRequest(wire[1]) <=> (~IsRequest(text) \/ MethodOf(text) \notin {<<"G","E","T">>, <<"P","O","S","T">>})
        /\ (received = Len(client.bytes) /\ Len(client.bytes) <= BUFFER_SIZE) =>
                (IsBadRequest(wire[1]) <=> (~client.wellformed \/ client.method \notin {"Get", "Post"}))
        /\ IsBadRequest(wire[1]) =>
            /\ BodyOf(wire[1]) = <<>>
            /\ find(to_lowercase(HeadOf(wire[1])), <<"c","o","n","t","e","n","t","-","l","e","n","g","t","h">>) = 0

C6_Witness ==
    /\ Len(wire) = 1 /\ IsBadRequest(wire[1])
    /\ client.bytes = <<"G","E","T"," ","/","a",".","t","x","t"," ","H","T","T","P","/","1",".","1","\r","\n","\r","\n">>
    /\ received = 13

-----------------------------------------------------------------------------
\* C7 as stated: Route::new removes exactly one leading slash of the path token: the
\* stored route is the path without its first character.
C7_OneSlashStripped ==
    (parse_pc = "done" /\ parsed.some) => parsed.val.route.path = Tail(input.path)

\* C7, amended: Route::new removes every leading slash of the path token: for a path
\* starting with k >= 1 slashes the stored route is the path without its first k
\* characters, and starts with no slash.
C7_AllSlashesStripped ==
    (parse_pc = "done" /\ parsed.some) =>
        /\ parsed.val.route.path = WithoutLeadingSlashes(input.path)
        /\ Len(parsed.val.route.path) = 0 \/ parsed.val.route.path[1] # "/"

C7_Witness == parse_pc = "done" /\ parsed.some /\ input.path = <<"/","/","a">> /\ parsed.val.route.path = <<"a">>

-----------------------------------------------------------------------------
\* C8: once the listener is bound, no socket I/O error on a single connection (a
\* failed accept, read, write or flush) makes serve return.
C8_ServeOutlivesConnectionErrors == serve_pc = "returned" => serve_result = "bind error"

-----------------------------------------------------------------------------
\* the status lines of the protocol
StatusLineText(version, status) ==
    (IF version = "V1_1" THEN <<"H","T","T","P","/","1",".","1"," ">> ELSE <<"H","T","T","P","/","2",".","0"," ">>)
    \o (CASE status = "OK" -> <<"2","0","0"," ","O","K">>
          [] status = "NotFound" -> <<"4","0","4"," ","N","o","t"," ","F","o","u","n","d">>
          [] status = "BadRequest" -> <<"4","0","0"," ","B","a","d"," ","R","e","q","u","e","s","t">>
          [] status = "Forbidden" -> <<"4","0","3"," ","F","o","r","b","i","d","d","e","n">>
          [] status = "InternalServerError" -> <<"5","0","0"," ","I","n","t","e","r","n","a","l"," ","S","e","r","v","e","r"," ","E","r","r","o","r">>)

RECURSIVE HeaderLinesLength(_, _)
HeaderLinesLength(headers, keys) ==
    IF keys = {} THEN 0
    ELSE LET k == CHOOSE x \in keys : TRUE
         IN Len(k) + 2 + Len(headers[k]) + 2 + HeaderLinesLength(headers, keys \ {k})

\* w is r serialized: the status line, one line per header and nothing else, a blank
\* line, the body
Serialized(w, r) ==
    LET head == HeadOf(w) IN
    /\ find(w, CRLFCRLF) > 0
    /\ StatusLineOf(w) = StatusLineText(r.version, r.status)
    /\ \A k \in DOMAIN r.headers : find(head, CRLF \o k \o <<":"," ">> \o r.headers[k] \o CRLF) > 0
    /\ Len(head) = Len(StatusLineOf(w)) + 2 + HeaderLinesLength(r.headers, DOMAIN r.headers)
    /\ BodyOf(w) = r.response_body

\* C9: for every connection whose read succeeds, whatever the buffer holds,
\* handle_client builds a response and makes exactly one write_all, of that response
\* serialized whole, followed by a flush.
C9_OneWholeResponse ==
    /\ Len(wire) <= 1
    /\ client_pc = "write" => (reply.response # None /\ reply.response.status \in Statuses /\ Len(wire) = 0)
    /\ client_pc = "flush" => Len(wire) = 1
    /\ Len(wire) = 1 => Serialized(wire[1], reply.response)
    /\ (client_pc = "return" /\ io_error \in {"none", "flush"}) => Len(wire) = 1
    /\ (client_pc = "return" /\ io_error = "none") => flushed
    /\ flushed => (client_pc = "return" /\ Len(wire) = 1)

C9_Witness ==
    /\ client_pc = "return" /\ io_error = "none" /\ flushed /\ Len(wire) = 1
    /\ \E i \in 1..Len(client.bytes) : client.bytes[i] = INVALID_BYTE
    /\ ~client.wellformed

-----------------------------------------------------------------------------
\* C10: on the unchanging filesystem, a GET request received is answered by the
\* directory listing handler (200, or 403 or 500 when the entries cannot be read) when
\* its target is a directory inside the root, by the file handler when it is a regular
\* file inside the root, with 403 when the target, or the parent of a missing target,
\* lies outside the root, and with 404 when the target is missing, whether its parent
\* is inside the root or does not exist; so a 200 is given only for a target whose
\* canonical path is under the canonical root.
C10_GetFollowsTheTable ==
    ReceivedGet =>
        LET up == parent(Target) IN
        /\ (Inside(Target) /\ is_dir(Target)) =>
            /\ reply.opened = {Target}
            /\ reply.response.headers[<<"c","o","n","t","e","n","t","-","t","y","p","e">>] = <<"t","e","x","t","/","h","t","m","l">>
            /\ reply.response.status = (IF ~Node(canonicalize(Target).val).readable THEN "Forbidden" ELSE "OK")
        /\ (Inside(Target) /\ is_file(Target)) =>
            /\ reply.opened = {Target}
            /\ reply.response.status = (IF ~Node(canonicalize(Target).val).readable THEN "Forbidden" ELSE "OK")
            /\ Node(canonicalize(Target).val).readable => reply.response.response_body = Node(canonicalize(Target).val).contents
        /\ (exists(Target) /\ ~Inside(Target)) => (reply.response.status = "Forbidden" /\ reply.opened = {})
        /\ (~exists(Target) /\ up.some /\ exists(up.val) /\ Inside(up.val)) => (reply.response.status = "NotFound" /\ reply.opened = {})
        /\ (~exists(Target) /\ up.some /\ exists(up.val) /\ ~Inside(up.val)) => (reply.response.status = "Forbidden" /\ reply.opened = {})
        /\ (~exists(Target) /\ up.some /\ ~exists(up.val)) => (reply.response.status = "NotFound" /\ reply.opened = {})
        /\ reply.response.status = "OK" => Inside(Target)

C10_Witness ==
    /\ ReceivedGet /\ client.plain = <<"/","a",".","t","x","t">>
    /\ received < Len(client.bytes)
    /\ is_file(Target) /\ reply.opened = {Target}
    /\ reply.response.status = "OK"

====
